---- MODULE Spec2Model ----
(***************************************************************************)
(* Rule engine and turn state machine of the hex conquest game             *)
(* (server/game: board.py, units.py, player.py, rules.py, state.py).       *)
(* A GameState is the board (coordinate -> hex), the players with their    *)
(* region lists, the current player index, the turn counter and the tree   *)
(* configuration.  One action per public operation of GameState.  A game   *)
(* with history adds the HistoryManager (history/) and is driven by the    *)
(* calls of GameOrchestrator (orchestrator.py).                            *)
(***************************************************************************)
EXTENDS Integers, Sequences, FiniteSets, TLC

VARIABLES board, players, current_player_idx, turn,
          tree_growth_enabled, tree_spread_threshold, result, steps,
          history, waiting_for_human, in_flight

vars == <<board, players, current_player_idx, turn,
          tree_growth_enabled, tree_spread_threshold, result, steps,
          history, waiting_for_human, in_flight>>

(***************************************************************************)
(* Bounds of the model.                                                    *)
(***************************************************************************)
\* the number of operations applied to one game; steps counts them
MaxSteps == 5

\* the number of orchestrator calls made on one game with history
MaxCalls == 6

\* the number of operations applied to one of the games set up for a purchase
MaxPurchaseSteps == 3

\* the number of steps (turns begun, resumptions, undos) of one game of AI players
MaxAiSteps == 5

\* the number of actions an AI player takes in one turn
MaxAiActions == 2

\* the number of orchestrator calls made on one game played turn by turn
MaxPlaySteps == 6

(***************************************************************************)
(* Board geometry (board.py).                                              *)
(***************************************************************************)
Width == 2
Height == 3
NumPlayers == 3

PlayerIds == 0 .. (NumPlayers - 1)

\* owner = None
NoOwner == 0 - 1
\* the value None where a player id is expected
NoPlayer == 0 - 1
\* a coordinate that Board.get answers with None
OffBoard == <<9, 9>>

Min(a, b) == IF a <= b THEN a ELSE b
Max(a, b) == IF a >= b THEN a ELSE b

\* Board._generate_empty_board: keys of one row, in insertion order
RowKeys(r) == [i \in 1 .. Width |-> <<(i - 1) - (r \div 2), r>>]

RECURSIVE RowsFrom(_)
RowsFrom(r) == IF r >= Height THEN <<>> ELSE RowKeys(r) \o RowsFrom(r + 1)

\* the keys of Board.hexes in dict (insertion) order
BoardKeys == RowsFrom(0)

Coords == {BoardKeys[i] : i \in 1 .. Len(BoardKeys)}

HEX_DIRECTIONS == << <<1, 0>>, <<1, -1>>, <<0, -1>>, <<-1, 0>>, <<-1, 1>>, <<0, 1>> >>

\* Board.neighbors, for every hex of the board: the on-board neighbours in
\* direction order
NeighborTable ==
    [h \in Coords |->
        SelectSeq([i \in 1 .. 6 |->
                      <<h[1] + HEX_DIRECTIONS[i][1], h[2] + HEX_DIRECTIONS[i][2]>>],
                  LAMBDA c : c \in Coords)]

neighbors(h) == NeighborTable[h]

NeighborSetTable == [h \in Coords |-> {NeighborTable[h][i] : i \in 1 .. Len(NeighborTable[h])}]

NeighborSet(h) == NeighborSetTable[h]

(***************************************************************************)
(* Units (units.py).                                                       *)
(***************************************************************************)
UnitTypes == {"peasant", "spearman", "knight", "baron", "castle"}

UNIT_STATS ==
    [peasant  |-> [strength |-> 1, cost |-> 10, upkeep |-> 2],
     spearman |-> [strength |-> 2, cost |-> 20, upkeep |-> 6],
     knight   |-> [strength |-> 3, cost |-> 30, upkeep |-> 18],
     baron    |-> [strength |-> 4, cost |-> 40, upkeep |-> 54],
     castle   |-> [strength |-> 2, cost |-> 15, upkeep |-> 0]]

UPGRADE_PATH ==
    [peasant |-> "spearman", spearman |-> "knight", knight |-> "baron",
     baron |-> "none", castle |-> "none"]

\* hex.unit = None
NoUnit == [type |-> "none", owner |-> NoOwner, has_moved |-> FALSE]

Unit(t, o, m) == [type |-> t, owner |-> o, has_moved |-> m]

strength(u) == UNIT_STATS[u.type].strength
\* a price list on which every unit costs one gold less
cost_Discount(t) == UNIT_STATS[t].cost - 1

cost(t) == UNIT_STATS[t].cost
upkeep(u) == UNIT_STATS[u.type].upkeep
is_mobile(u) == u.type # "castle"

can_merge_with(u, other) ==
    /\ u.type = other.type
    /\ u.owner = other.owner
    /\ is_mobile(u)
    /\ UPGRADE_PATH[u.type] # "none"

\* a merge whose result is free to act
merge_Fresh(u1, u2) == Unit(UPGRADE_PATH[u1.type], u1.owner, FALSE)

\* Unit.merge, for units that can merge
merge(u1, u2) == Unit(UPGRADE_PATH[u1.type], u1.owner, TRUE)

(***************************************************************************)
(* Hexes and connectivity (board.py).                                      *)
(***************************************************************************)
Hex(t, o, u) == [terrain |-> t, owner |-> o, unit |-> u]

\* Board.get_territory, as a sequence in dict order
get_territory(b, pid) == SelectSeq(BoardKeys, LAMBDA h : b[h].owner = pid)

RECURSIVE Flood(_, _, _, _)
Flood(b, owner, visited, to_visit) ==
    IF to_visit = {} THEN visited
    ELSE LET current == CHOOSE h \in to_visit : TRUE
             rest == to_visit \ {current}
         IN  IF current \in visited \/ b[current].owner # owner
             THEN Flood(b, owner, visited, rest)
             ELSE Flood(b, owner, visited \cup {current},
                        rest \cup {n \in NeighborSet(current) :
                                      n \notin visited /\ b[n].owner = owner})

\* Board.get_region: flood fill over the hexes of start's owner
get_region(b, start) ==
    IF b[start].owner = NoOwner THEN {} ELSE Flood(b, b[start].owner, {}, {start})

RECURSIVE RegionsFrom(_, _, _, _)
RegionsFrom(b, territory, i, visited) ==
    IF i > Len(territory) THEN <<>>
    ELSE IF territory[i] \in visited
         THEN RegionsFrom(b, territory, i + 1, visited)
         ELSE LET region == get_region(b, territory[i])
              IN  <<region>> \o RegionsFrom(b, territory, i + 1, visited \cup region)

\* Board.get_regions: the components of a player's territory, in dict order
get_regions(b, pid) == RegionsFrom(b, get_territory(b, pid), 1, {})

(***************************************************************************)
(* Regions (player.py, class Region).  A region's hexes are references to  *)
(* the board's hexes: terrain and unit are read from the board.            *)
(***************************************************************************)
Region(hs, cap, g) == [hexes |-> hs, has_capital |-> cap, gold |-> g]

\* the answer None of capital_hex
NoHex == <<-9, -9>>
\* the answer None of get_region_for_hex
NoRegion == Region({}, FALSE, 0)

\* the key (h.q, h.r) of min(...), compared as Python compares tuples
LexLE(h, g) == h[1] < g[1] \/ (h[1] = g[1] /\ h[2] <= g[2])

MinHex(hs) == CHOOSE h \in hs : \A g \in hs : LexLE(h, g)

capital_hex(r) ==
    IF ~r.has_capital \/ r.hexes = {} THEN NoHex ELSE MinHex(r.hexes)

income(b, r) ==
    LET base == Cardinality({h \in r.hexes : b[h].terrain \notin {"tree", "grave"}})
    IN  IF r.has_capital THEN Max(1, base) ELSE base

max_gold(r) == IF r.has_capital THEN 999999 ELSE 10

\* has_castle answering for the capital instead of the castle
has_castle_AsCapital(b, r) == r.has_capital

has_castle(b, r) == \E h \in r.hexes : b[h].unit # NoUnit /\ b[h].unit.type = "castle"

get_territory_maintenance(r) == Max(0, Cardinality(r.hexes) - 1)

RECURSIVE SumUpkeep(_, _)
SumUpkeep(b, hs) ==
    IF hs = {} THEN 0
    ELSE LET h == CHOOSE x \in hs : TRUE
         IN  (IF b[h].unit # NoUnit THEN upkeep(b[h].unit) ELSE 0) + SumUpkeep(b, hs \ {h})

get_upkeep(b, r) == SumUpkeep(b, r.hexes)

collect_income(b, r) == [r EXCEPT !.gold = Min(r.gold + income(b, r), max_gold(r))]

RECURSIVE Orders(_)
Orders(S) ==
    IF S = {} THEN {<<>>}
    ELSE UNION {{<<x>> \o o : o \in Orders(S \ {x})} : x \in S}

\* the unit hexes in any order, without the sort
units_by_upkeep_Unsorted(b, r) == Orders({h \in r.hexes : b[h].unit # NoUnit})

\* sorted(..., key=upkeep) over a set: every order of the unit hexes that is
\* non-decreasing in upkeep (the order among equal keys follows the set's
\* iteration order, which the code does not fix)
units_by_upkeep(b, r) ==
    {o \in Orders({h \in r.hexes : b[h].unit # NoUnit}) :
        \A i \in 1 .. (Len(o) - 1) : upkeep(b[o[i]].unit) <= upkeep(b[o[i + 1]].unit)}

RECURSIVE StarveLoop(_, _, _, _, _)
\* the while loop of pay_upkeep: pops from the front while the gold left is
\* short of the upkeep still to pay
StarveLoop(b, order, remaining_gold, to_pay, starved) ==
    IF remaining_gold < to_pay /\ order # <<>>
    THEN StarveLoop(b, Tail(order), remaining_gold,
                    to_pay - upkeep(b[Head(order)].unit), Append(starved, Head(order)))
    ELSE [to_pay |-> to_pay, starved |-> starved]

\* an upkeep payment that always deducts the full amount due
pay_upkeep_Plain(b, r) ==
    {[gold |-> r.gold - (get_territory_maintenance(r) + get_upkeep(b, r)), starved |-> <<>>]}

\* Region.pay_upkeep: the possible outcomes [gold, starved]
pay_upkeep(b, r) ==
    LET territory_cost == get_territory_maintenance(r)
        unit_upkeep == get_upkeep(b, r)
        total_cost == territory_cost + unit_upkeep
    IN  IF r.gold >= total_cost
        THEN {[gold |-> r.gold - total_cost, starved |-> <<>>]}
        ELSE IF r.gold >= territory_cost
             THEN {LET remaining_gold == r.gold - territory_cost
                       loop == StarveLoop(b, o, remaining_gold, unit_upkeep, <<>>)
                   IN  [gold |-> Max(0, remaining_gold - loop.to_pay),
                        starved |-> loop.starved] : o \in units_by_upkeep(b, r)}
             ELSE {[gold |-> 0, starved |-> <<>>]}

SeqSet(s) == {s[i] : i \in 1 .. Len(s)}

\* h.unit = None; h.terrain = GRAVE for the starved hexes
Starve(b, hs) ==
    [h \in Coords |-> IF h \in hs THEN [b[h] EXCEPT !.unit = NoUnit, !.terrain = "grave"]
                      ELSE b[h]]

(***************************************************************************)
(* Players (player.py, class Player).                                      *)
(***************************************************************************)
Player(e, rs) == [eliminated |-> e, regions |-> rs]

RECURSIVE SumGold(_)
SumGold(rs) == IF rs = <<>> THEN 0 ELSE Head(rs).gold + SumGold(Tail(rs))

\* update_regions where the first old region met gives its gold and the
\* others are dropped
update_regions_FirstMatch(b, pid, old) ==
    LET region_sets == get_regions(b, pid)
    IN  [i \in 1 .. Len(region_sets) |->
            LET hex_set == region_sets[i]
                region == Region(hex_set, Cardinality(hex_set) >= 2, 0)
                met == SelectSeq(old, LAMBDA old_r : old_r.hexes \cap hex_set # {})
            IN  [region EXCEPT !.gold = Min(IF met = <<>> THEN 0 ELSE Head(met).gold,
                                            max_gold(region))]]

\* update_regions with the storage cap left out
update_regions_NoCap(b, pid, old) ==
    LET region_sets == get_regions(b, pid)
    IN  [i \in 1 .. Len(region_sets) |->
            Region(region_sets[i], Cardinality(region_sets[i]) >= 2,
                   SumGold(SelectSeq(old, LAMBDA old_r : old_r.hexes \cap region_sets[i] # {})))]

\* Player.update_regions: the components of the player's territory, each with
\* the gold of every old region that holds one of its hexes (an old region is
\* counted once per new region), capped at the new region's storage
update_regions(b, pid, old) ==
    LET region_sets == get_regions(b, pid)
    IN  [i \in 1 .. Len(region_sets) |->
            LET hex_set == region_sets[i]
                region == Region(hex_set, Cardinality(hex_set) >= 2, 0)
                total_old_gold ==
                    SumGold(SelectSeq(old, LAMBDA old_r : old_r.hexes \cap hex_set # {}))
            IN  [region EXCEPT !.gold = Min(total_old_gold, max_gold(region))]]

\* a death of a territory that leaves its units standing on the unowned hexes
KillTerritory_KeepUnits(b, hs) ==
    [h \in Coords |-> IF h \in hs THEN [b[h] EXCEPT !.owner = NoOwner] ELSE b[h]]

\* the death of a territory: units leave graves, the hexes lose their owner
KillTerritory(b, hs) ==
    [h \in Coords |->
        IF h \in hs
        THEN Hex(IF b[h].unit # NoUnit THEN "grave" ELSE b[h].terrain, NoOwner, NoUnit)
        ELSE b[h]]

RECURSIVE RemoveFirst(_, _)
\* list.remove: drops the first element equal to x
RemoveFirst(s, x) ==
    IF s = <<>> THEN <<>>
    ELSE IF Head(s) = x THEN Tail(s) ELSE <<Head(s)>> \o RemoveFirst(Tail(s), x)

RECURSIVE RemoveAll(_, _)
RemoveAll(s, kill) ==
    IF kill = <<>> THEN s ELSE RemoveAll(RemoveFirst(s, Head(kill)), Tail(kill))

RECURSIVE CastleScan(_, _, _, _)
CastleScan(b, regions, i, kill) ==
    IF i > Len(regions) THEN [board |-> b, kill |-> kill]
    ELSE IF ~has_castle(b, regions[i])
         THEN CastleScan(KillTerritory(b, regions[i].hexes), regions, i + 1,
                         Append(kill, regions[i]))
         ELSE CastleScan(b, regions, i + 1, kill)

\* Player.check_castle_requirement: [board, regions, deaths]
check_castle_requirement(b, regions) ==
    LET scan == CastleScan(b, regions, 1, <<>>)
    IN  [board |-> scan.board,
         regions |-> RemoveAll(regions, scan.kill),
         deaths |-> [i \in 1 .. Len(scan.kill) |->
                        [region_size |-> Cardinality(scan.kill[i].hexes),
                         hexes |-> scan.kill[i].hexes,
                         reason |-> "no_castle"]]]

\* the amount due with the unit upkeep left out
total_needed_TerritoryOnly(b, r) == get_territory_maintenance(r)

\* total_needed of check_territory_maintenance
total_needed(b, r) == get_territory_maintenance(r) + get_upkeep(b, r)

RECURSIVE MaintenanceScan(_, _, _, _)
MaintenanceScan(b, regions, i, kill) ==
    IF i > Len(regions) THEN [board |-> b, kill |-> kill]
    ELSE IF regions[i].gold < total_needed(b, regions[i])
         THEN MaintenanceScan(KillTerritory(b, regions[i].hexes), regions, i + 1,
                              Append(kill, [region |-> regions[i],
                                            needed |-> total_needed(b, regions[i])]))
         ELSE MaintenanceScan(b, regions, i + 1, kill)

\* Player.check_territory_maintenance: [board, regions, deaths]
check_territory_maintenance(b, regions) ==
    LET scan == MaintenanceScan(b, regions, 1, <<>>)
    IN  [board |-> scan.board,
         regions |-> RemoveAll(regions, [i \in 1 .. Len(scan.kill) |-> scan.kill[i].region]),
         deaths |-> [i \in 1 .. Len(scan.kill) |->
                        [region_size |-> Cardinality(scan.kill[i].region.hexes),
                         hexes |-> scan.kill[i].region.hexes,
                         reason |-> "insufficient_gold",
                         needed |-> scan.kill[i].needed,
                         had |-> scan.kill[i].region.gold]]]

\* kill_isolated_units sparing the castles
kill_isolated_units_KeepCastles(b, regions) ==
    LET isolated == UNION {regions[i].hexes : i \in {j \in 1 .. Len(regions) :
                                                        ~regions[j].has_capital}}
        dead == {h \in isolated : b[h].unit # NoUnit /\ is_mobile(b[h].unit)}
    IN  [board |-> Starve(b, dead),
         deaths |-> {[hex |-> h, unit |-> b[h].unit.type] : h \in dead}]

\* Player.kill_isolated_units: [board, deaths]
kill_isolated_units(b, regions) ==
    LET isolated == UNION {regions[i].hexes : i \in {j \in 1 .. Len(regions) :
                                                        ~regions[j].has_capital}}
        dead == {h \in isolated : b[h].unit # NoUnit}
    IN  [board |-> Starve(b, dead),
         deaths |-> {[hex |-> h, unit |-> b[h].unit.type] : h \in dead}]

\* Player.start_turn: income for every region
player_start_turn(b, regions) == [i \in 1 .. Len(regions) |-> collect_income(b, regions[i])]

RECURSIVE EndTurnOutcomes(_, _)
\* Player.end_turn: pay_upkeep region by region; the possible outcome lists
EndTurnOutcomes(b, regions) ==
    IF regions = <<>> THEN {<<>>}
    ELSE {<<o>> \o rest : o \in pay_upkeep(b, Head(regions)),
                          rest \in EndTurnOutcomes(b, Tail(regions))}

\* an elimination test on units instead of territory
check_eliminated_NoUnits(b, pid) ==
    \A h \in Coords : b[h].unit = NoUnit \/ b[h].unit.owner # pid

\* Player.check_eliminated
check_eliminated(b, pid) == Len(get_territory(b, pid)) = 0

(***************************************************************************)
(* Rules (rules.py, class GameRules).                                      *)
(***************************************************************************)
Msg(text) == [text |-> text, args |-> <<>>]
MsgArgs(text, a, b) == [text |-> text, args |-> <<a, b>>]

RECURSIVE RegionIndexFrom(_, _, _)
RegionIndexFrom(regions, h, i) ==
    IF i > Len(regions) THEN 0
    ELSE IF h \in regions[i].hexes THEN i ELSE RegionIndexFrom(regions, h, i + 1)

\* position in player.regions of the first region that holds h, 0 for None
region_index(regions, h) == RegionIndexFrom(regions, h, 1)

get_region_for_hex(regions, h) ==
    IF region_index(regions, h) = 0 THEN NoRegion ELSE regions[region_index(regions, h)]

RECURSIVE MaxOf(_)
MaxOf(S) ==
    IF S = {} THEN 0
    ELSE LET x == CHOOSE y \in S : TRUE IN Max(x, MaxOf(S \ {x}))

\* get_defense_strength with the adjacent capitals left out
get_defense_strength_NoAdjacentCapital(b, ps, target_hex) ==
    IF b[target_hex].owner = NoOwner THEN 0
    ELSE LET owner == b[target_hex].owner
             regions == ps[owner].regions
             on_hex == IF b[target_hex].unit # NoUnit
                       THEN {strength(b[target_hex].unit)} ELSE {}
             capital == IF capital_hex(get_region_for_hex(regions, target_hex)) = target_hex
                        THEN {1} ELSE {}
             same_owner == {n \in NeighborSet(target_hex) : b[n].owner = owner}
             adjacent_unit ==
                 {strength(b[n].unit) :
                    n \in {m \in same_owner : b[m].unit # NoUnit /\ b[m].unit.owner = owner}}
         IN  MaxOf(on_hex \cup capital \cup adjacent_unit)

\* GameRules.get_defense_strength
get_defense_strength(b, ps, target_hex) ==
    IF b[target_hex].owner = NoOwner THEN 0
    ELSE LET owner == b[target_hex].owner
             regions == ps[owner].regions
             on_hex == IF b[target_hex].unit # NoUnit
                       THEN {strength(b[target_hex].unit)} ELSE {}
             capital == IF capital_hex(get_region_for_hex(regions, target_hex)) = target_hex
                        THEN {1} ELSE {}
             same_owner == {n \in NeighborSet(target_hex) : b[n].owner = owner}
             adjacent_capital ==
                 {1 : n \in {m \in same_owner :
                                capital_hex(get_region_for_hex(regions, m)) = m}}
             adjacent_unit ==
                 {strength(b[n].unit) :
                    n \in {m \in same_owner : b[m].unit # NoUnit /\ b[m].unit.owner = owner}}
         IN  MaxOf(on_hex \cup capital \cup adjacent_capital \cup adjacent_unit)

\* the comparison of can_move for an attack on an owned hex, with "<" for "<="
attack_blocked_Strict(b, ps, unit, to_hex) ==
    strength(unit) < get_defense_strength(b, ps, to_hex)

\* the comparison of can_move for an attack on an owned hex
attack_blocked(b, ps, unit, to_hex) ==
    strength(unit) <= get_defense_strength(b, ps, to_hex)

\* a budget test that never finds the unit to have acted
already_acted_Never(unit) == FALSE

\* the test of the one action per turn in can_move
already_acted(unit) == unit.has_moved

\* GameRules.can_move: [ok, message]
can_move(b, ps, player_id, from_hex, to_hex) ==
    LET unit == b[from_hex].unit
        to == b[to_hex]
    IN  IF unit = NoUnit THEN [ok |-> FALSE, message |-> Msg("No unit on source hex")]
        ELSE IF unit.owner # player_id
        THEN [ok |-> FALSE, message |-> Msg("Unit does not belong to player")]
        ELSE IF ~is_mobile(unit) THEN [ok |-> FALSE, message |-> Msg("Castles cannot move")]
        ELSE IF to_hex \notin NeighborSet(from_hex)
        THEN [ok |-> FALSE, message |-> Msg("Target hex is not adjacent")]
        ELSE IF to.terrain = "sea" THEN [ok |-> FALSE, message |-> Msg("Cannot move to sea")]
        ELSE IF to.terrain \in {"tree", "grave"} /\ to.owner = player_id
        THEN IF already_acted(unit)
             THEN [ok |-> FALSE, message |-> Msg("Unit already acted this turn")]
             ELSE [ok |-> TRUE, message |-> Msg("OK")]
        ELSE IF to.owner = player_id
        THEN IF to.unit # NoUnit
             THEN IF can_merge_with(unit, to.unit)
                  THEN [ok |-> TRUE, message |-> Msg("OK")]
                  ELSE [ok |-> FALSE,
                        message |-> Msg("Hex occupied (can merge same unit types)")]
             ELSE [ok |-> TRUE, message |-> Msg("OK")]
        ELSE IF already_acted(unit)
        THEN [ok |-> FALSE, message |-> Msg("Unit already attacked this turn")]
        ELSE IF to.owner # NoOwner /\ attack_blocked(b, ps, unit, to_hex)
        THEN [ok |-> FALSE,
              message |-> MsgArgs("Defense too strong",
                                  get_defense_strength(b, ps, to_hex), strength(unit))]
        ELSE [ok |-> TRUE, message |-> Msg("OK")]

MoveResult(s, m, k, mi, c) ==
    [success |-> s, message |-> m, killed_unit |-> k, merged_into |-> mi, conquered_hex |-> c]

\* the recalculation with the player who lost the hex left out
RecomputeAfterCapture_CapturerOnly(b, ps, player_id, old_owner) ==
    [ps EXCEPT ![player_id].regions = update_regions(b, player_id, @)]

\* update_regions for the player who gained a hex, then for the one who lost it
RecomputeAfterCapture(b, ps, player_id, old_owner) ==
    LET ps1 == [ps EXCEPT ![player_id].regions = update_regions(b, player_id, @)]
    IN  IF old_owner # NoOwner
        THEN [ps1 EXCEPT ![old_owner].regions = update_regions(b, old_owner, @)]
        ELSE ps1

\* the part of execute_move after can_move has accepted
ApplyMove(b, ps, player_id, from_hex, to_hex) ==
    LET unit == b[from_hex].unit
        to == b[to_hex]
        is_attack == to.owner # player_id
        combat == to.unit # NoUnit /\ to.owner # player_id
        killed_unit == IF combat THEN to.unit.type ELSE "none"
        to_unit == IF combat THEN NoUnit ELSE to.unit
    IN  IF to_unit # NoUnit /\ to.owner = player_id
        THEN IF can_merge_with(unit, to_unit)
             THEN [board |-> [b EXCEPT ![to_hex].unit = merge(unit, to_unit),
                                       ![from_hex].unit = NoUnit],
                   players |-> ps,
                   res |-> MoveResult(TRUE, Msg("Units merged"), "none",
                                      merge(unit, to_unit).type, FALSE)]
             ELSE [board |-> b, players |-> ps,
                   res |-> MoveResult(FALSE, Msg("Cannot merge units of different types"),
                                      "none", "none", FALSE)]
        ELSE LET clearing == to.terrain \in {"tree", "grave"}
                 moved == [unit EXCEPT !.has_moved = @ \/ clearing \/ is_attack]
                 b1 == [b EXCEPT ![from_hex].unit = NoUnit,
                                 ![to_hex] = Hex(IF clearing THEN "land" ELSE to.terrain,
                                                 IF is_attack THEN player_id ELSE to.owner,
                                                 moved)]
             IN  [board |-> b1,
                  players |-> IF is_attack
                              THEN RecomputeAfterCapture(b1, ps, player_id, to.owner)
                              ELSE ps,
                  res |-> MoveResult(TRUE, Msg("Move successful"), killed_unit, "none",
                                     is_attack)]

\* execute_move marking the unit as having acted before the move is validated
execute_move_MarkFirst(b, ps, player_id, from_hex, to_hex) ==
    IF from_hex \notin Coords \/ to_hex \notin Coords
    THEN [board |-> b, players |-> ps,
          res |-> MoveResult(FALSE, Msg("Invalid coordinates"), "none", "none", FALSE)]
    ELSE IF ~can_move(b, ps, player_id, from_hex, to_hex).ok
         THEN [board |-> [b EXCEPT ![from_hex].unit =
                             IF @ = NoUnit THEN @ ELSE [@ EXCEPT !.has_moved = TRUE]],
               players |-> ps,
               res |-> MoveResult(FALSE, can_move(b, ps, player_id, from_hex, to_hex).message,
                                  "none", "none", FALSE)]
         ELSE ApplyMove(b, ps, player_id, from_hex, to_hex)

\* GameRules.execute_move: [board, players, res]
execute_move(b, ps, player_id, from_hex, to_hex) ==
    IF from_hex \notin Coords \/ to_hex \notin Coords
    THEN [board |-> b, players |-> ps,
          res |-> MoveResult(FALSE, Msg("Invalid coordinates"), "none", "none", FALSE)]
    ELSE \* can: the answer of can_move, evaluated once
         CHOOSE out \in
             {IF ~can.ok
              THEN [board |-> b, players |-> ps,
                    res |-> MoveResult(FALSE, can.message, "none", "none", FALSE)]
              ELSE ApplyMove(b, ps, player_id, from_hex, to_hex) :
                 can \in {can_move(b, ps, player_id, from_hex, to_hex)}} : TRUE

\* a purchase that is turned away only by a defense above the new unit's strength
purchase_blocked_Strict(b, ps, unit_type, target_hex) ==
    UNIT_STATS[unit_type].strength < get_defense_strength(b, ps, target_hex)

\* the comparison of can_buy for a purchase onto a hex of another player
purchase_blocked(b, ps, unit_type, target_hex) ==
    UNIT_STATS[unit_type].strength <= get_defense_strength(b, ps, target_hex)

\* a scan that takes the first region with the price, adjacent or not
PayingFrom_AnyRegion(b, regions, player_id, ns, price) ==
    IF \E i \in 1 .. Len(regions) : regions[i].gold >= price
    THEN CHOOSE i \in 1 .. Len(regions) :
            /\ regions[i].gold >= price
            /\ \A j \in 1 .. (i - 1) : regions[j].gold < price
    ELSE 0

RECURSIVE PayingFrom(_, _, _, _, _)
\* the scan of can_buy over the target's neighbours: the position of the
\* region that pays, 0 when there is none
PayingFrom(b, regions, player_id, ns, price) ==
    IF ns = <<>> THEN 0
    ELSE IF b[Head(ns)].owner = player_id
            /\ region_index(regions, Head(ns)) # 0
            /\ regions[region_index(regions, Head(ns))].gold >= price
         THEN region_index(regions, Head(ns))
         ELSE PayingFrom(b, regions, player_id, Tail(ns), price)

\* GameRules.can_buy: [ok, message, paying_region (a position in player.regions)]
can_buy(b, ps, player_id, unit_type, target_hex) ==
    LET target == b[target_hex]
        regions == ps[player_id].regions
        no(m) == [ok |-> FALSE, message |-> m, paying_region |-> 0]
    IN  IF target.terrain = "grave" /\ target.owner = player_id
        THEN no(Msg("Clear the grave first"))
        ELSE IF target.terrain = "sea" THEN no(Msg("Cannot place unit on sea"))
        ELSE IF target.owner = player_id
        THEN IF target.unit # NoUnit THEN no(Msg("Hex already has a unit"))
             ELSE IF region_index(regions, target_hex) = 0
             THEN no(Msg("Hex not in any region"))
             ELSE IF get_region_for_hex(regions, target_hex).gold < cost(unit_type)
             THEN no(MsgArgs("Not enough gold",
                             get_region_for_hex(regions, target_hex).gold, cost(unit_type)))
             ELSE [ok |-> TRUE, message |-> Msg("OK"),
                   paying_region |-> region_index(regions, target_hex)]
        ELSE IF target.owner # NoOwner /\ target.owner # player_id
        THEN IF purchase_blocked(b, ps, unit_type, target_hex)
             THEN no(MsgArgs("Defense too strong", get_defense_strength(b, ps, target_hex),
                             UNIT_STATS[unit_type].strength))
             ELSE IF PayingFrom(b, regions, player_id, neighbors(target_hex),
                                cost(unit_type)) = 0
             THEN no(Msg("No adjacent region with enough gold"))
             ELSE [ok |-> TRUE, message |-> Msg("OK"),
                   paying_region |-> PayingFrom(b, regions, player_id,
                                                neighbors(target_hex), cost(unit_type))]
        ELSE no(Msg("Invalid target"))

BuyResult(s, m, u) == [success |-> s, message |-> m, unit |-> u]

\* a purchased unit that is free to act
purchased_unit_Fresh(unit_type, player_id) == Unit(unit_type, player_id, FALSE)

\* the unit execute_buy places: marked as having acted
purchased_unit(unit_type, player_id) == Unit(unit_type, player_id, TRUE)

\* the part of execute_buy after can_buy has accepted
ApplyBuy(b, ps, player_id, unit_type, target_hex, paying_region) ==
    LET target == b[target_hex]
        ps1 == [ps EXCEPT ![player_id].regions[paying_region].gold = @ - cost(unit_type)]
        chopped == IF target.terrain = "tree" THEN "land" ELSE target.terrain
        killed == IF target.unit # NoUnit /\ target.owner # player_id
                  THEN target.unit.type ELSE "none"
        old_owner == target.owner
        conquered == old_owner # player_id
        cleared == IF conquered /\ chopped = "grave" THEN "land" ELSE chopped
        b1 == [b EXCEPT ![target_hex].terrain = cleared, ![target_hex].owner = player_id]
        ps2 == IF conquered THEN RecomputeAfterCapture(b1, ps1, player_id, old_owner)
               ELSE ps1
    IN  [board |-> [b1 EXCEPT ![target_hex].unit = purchased_unit(unit_type, player_id)],
         players |-> ps2,
         res |-> BuyResult(TRUE, [text |-> "Purchased",
                                  args |-> <<unit_type, killed, conquered>>], unit_type)]

\* GameRules.execute_buy: [board, players, res]
execute_buy(b, ps, player_id, unit_type, target_hex) ==
    IF target_hex \notin Coords
    THEN [board |-> b, players |-> ps,
          res |-> BuyResult(FALSE, Msg("Invalid coordinates"), "none")]
    ELSE \* can: the answer of can_buy, evaluated once
         CHOOSE out \in
             {IF ~can.ok
              THEN [board |-> b, players |-> ps,
                    res |-> BuyResult(FALSE, can.message, "none")]
              ELSE ApplyBuy(b, ps, player_id, unit_type, target_hex, can.paying_region) :
                 can \in {can_buy(b, ps, player_id, unit_type, target_hex)}} : TRUE

\* a reset that clears the action flag of every unit on the board
reset_units_for_turn_All(b, player_id) ==
    [h \in Coords |->
        IF b[h].unit # NoUnit THEN [b[h] EXCEPT !.unit.has_moved = FALSE] ELSE b[h]]

\* GameRules.reset_units_for_turn
reset_units_for_turn(b, player_id) ==
    [h \in Coords |->
        IF b[h].owner = player_id /\ b[h].unit # NoUnit /\ b[h].unit.owner = player_id
        THEN [b[h] EXCEPT !.unit.has_moved = FALSE]
        ELSE b[h]]

\* the answer None of check_victory
NoWinner == -2

\* get_valid_moves: for each hex of the territory holding a unit of the
\* player that has not acted, the neighbours can_move accepts
get_valid_moves(b, ps, player_id) ==
    LET territory == get_territory(b, player_id)
        targets(from_hex) ==
            SelectSeq(neighbors(from_hex),
                      LAMBDA to_hex : can_move(b, ps, player_id, from_hex, to_hex).ok)
        pairs(from_hex) ==
            LET ts == targets(from_hex)
            IN  [i \in 1 .. Len(ts) |-> <<from_hex, ts[i]>>]
        RECURSIVE moves(_)
        moves(i) ==
            IF i > Len(territory) THEN <<>>
            ELSE LET from_hex == territory[i]
                     unit == b[from_hex].unit
                 IN  (IF unit # NoUnit /\ unit.owner = player_id /\ ~unit.has_moved
                      THEN pairs(from_hex)
                      ELSE <<>>) \o moves(i + 1)
    IN  moves(1)

\* the list of purchases with its duplicates left in
unique_KeepAll(purchases) == purchases

\* the removal of duplicates in get_valid_purchases: the first entry of each
\* (unit type, q, r) key is kept
unique(purchases) ==
    LET RECURSIVE keep(_, _)
        keep(i, seen) ==
            IF i > Len(purchases) THEN <<>>
            ELSE LET key == <<purchases[i].unit_type, purchases[i].hex>>
                 IN  IF key \in seen THEN keep(i + 1, seen)
                     ELSE <<purchases[i]>> \o keep(i + 1, seen \cup {key})
    IN  keep(1, {})

\* get_valid_purchases: entries [unit_type, hex, region_gold, is_attack]; for
\* each unit type in the order of the enumeration, the placements on own
\* hexes of the regions that hold the price, then the enemy neighbours of
\* those regions' hexes that the new unit's strength beats.  The hexes of a
\* region (a Python set) are walked in board order here: the order decides
\* the position of an entry in the list, never which keys are in it.
get_valid_purchases(b, ps, player_id) ==
    LET regions == ps[player_id].regions
        types == <<"peasant", "spearman", "knight", "baron", "castle">>
        hexes_of(region) == SelectSeq(BoardKeys, LAMBDA h : h \in region.hexes)
        entry(unit_type, h, region, is_attack) ==
            [unit_type |-> unit_type, hex |-> h, region_gold |-> region.gold,
             is_attack |-> is_attack]
        RECURSIVE flatten(_, _)
        flatten(xss, i) == IF i > Len(xss) THEN <<>> ELSE xss[i] \o flatten(xss, i + 1)
        own_in(unit_type, region) ==
            IF region.gold >= cost(unit_type)
            THEN LET hs == SelectSeq(hexes_of(region),
                                     LAMBDA h : /\ b[h].unit = NoUnit
                                                /\ b[h].terrain \notin {"sea", "grave"})
                 IN  [i \in 1 .. Len(hs) |-> entry(unit_type, hs[i], region, FALSE)]
            ELSE <<>>
        attacks_from(unit_type, region, h) ==
            LET ns == SelectSeq(neighbors(h),
                                LAMBDA n : /\ b[n].owner # NoOwner
                                           /\ b[n].owner # player_id
                                           /\ b[n].terrain # "sea"
                                           /\ UNIT_STATS[unit_type].strength
                                                  > get_defense_strength(b, ps, n))
            IN  [i \in 1 .. Len(ns) |-> entry(unit_type, ns[i], region, TRUE)]
        attacks_in(unit_type, region) ==
            IF region.gold >= cost(unit_type)
            THEN LET hs == hexes_of(region)
                 IN  flatten([i \in 1 .. Len(hs) |-> attacks_from(unit_type, region, hs[i])],
                             1)
            ELSE <<>>
        for_type(unit_type) ==
            flatten([i \in 1 .. Len(regions) |-> own_in(unit_type, regions[i])], 1)
                \o flatten([i \in 1 .. Len(regions) |-> attacks_in(unit_type, regions[i])],
                           1)
    IN  unique(flatten([t \in 1 .. Len(types) |-> for_type(types[t])], 1))

\* check_victory that names the first active player as soon as there is one
check_victory_FirstActive(ps) ==
    LET active_players == SelectSeq([i \in 1 .. NumPlayers |-> i - 1],
                                    LAMBDA p : ~ps[p].eliminated)
    IN  IF Len(active_players) >= 1 THEN active_players[1] ELSE -1

\* GameRules.check_victory
check_victory(ps) ==
    LET active_players == SelectSeq([i \in 1 .. NumPlayers |-> i - 1],
                                    LAMBDA p : ~ps[p].eliminated)
    IN  IF Len(active_players) = 1 THEN active_players[1]
        ELSE IF Len(active_players) = 0 THEN -1
        ELSE NoWinner

(***************************************************************************)
(* Game state (state.py, class GameState).                                 *)
(***************************************************************************)
\* GameState.__post_init__: regions from the board, 5 gold per non-tree hex
post_init(b) ==
    [p \in PlayerIds |->
        LET regions == update_regions(b, p, <<>>)
        IN  Player(FALSE,
                   [i \in 1 .. Len(regions) |->
                       [regions[i] EXCEPT !.gold =
                           5 * Cardinality({h \in regions[i].hexes : b[h].terrain # "tree"})]])]

\* a spread that asks for no tree neighbour at all
spread_threshold_None(is_coastal, threshold) == 0

\* the number of tree neighbours a hex needs: 1 beside the sea, the
\* configured threshold elsewhere
spread_threshold(is_coastal, threshold) == IF is_coastal THEN 1 ELSE threshold

\* GameState._grow_trees: [board, players]
grow_trees(b, ps, player_id, threshold) ==
    LET regions == ps[player_id].regions
        territory == {h \in Coords : b[h].owner = player_id}
        capital_hexes == {capital_hex(regions[i]) : i \in 1 .. Len(regions)} \ {NoHex}
        b1 == [h \in Coords |->
                  IF h \in capital_hexes /\ b[h].terrain \in {"tree", "grave"}
                  THEN [b[h] EXCEPT !.terrain = "land"] ELSE b[h]]
        graves == {h \in territory : b1[h].terrain = "grave" /\ h \notin capital_hexes}
        b2 == [h \in Coords |-> IF h \in graves THEN [b1[h] EXCEPT !.terrain = "tree"]
                                ELSE b1[h]]
        tree_neighbors(h) == Cardinality({n \in NeighborSet(h) : b2[n].terrain = "tree"})
        is_coastal(h) == \E n \in NeighborSet(h) : b2[n].terrain = "sea"
        candidates ==
            {h \in territory :
                /\ b2[h].terrain = "land"
                /\ b2[h].unit = NoUnit
                /\ h \notin capital_hexes
                /\ tree_neighbors(h) >= spread_threshold(is_coastal(h), threshold)}
        b3 == [h \in Coords |-> IF h \in candidates THEN [b2[h] EXCEPT !.terrain = "tree"]
                                ELSE b2[h]]
    IN  [board |-> b3,
         players |-> IF graves \cup candidates # {}
                     THEN [ps EXCEPT ![player_id].regions = update_regions(b3, player_id, @)]
                     ELSE ps]

RECURSIVE DeathChecks(_, _, _, _)
\* the loop of start_turn over all players: castle requirement, territory
\* maintenance, isolated units, for every player that is not eliminated
DeathChecks(b, ps, p, acc) ==
    IF p >= NumPlayers
    THEN [board |-> b, players |-> ps, deaths |-> acc]
    ELSE IF ps[p].eliminated THEN DeathChecks(b, ps, p + 1, acc)
    ELSE LET c == check_castle_requirement(b, ps[p].regions)
             m == check_territory_maintenance(c.board, c.regions)
             k == kill_isolated_units(m.board, m.regions)
             tag(ds) == [i \in 1 .. Len(ds) |-> [player |-> p, death |-> ds[i]]]
         IN  DeathChecks(k.board, [ps EXCEPT ![p].regions = m.regions], p + 1,
                         [castle_deaths |-> acc.castle_deaths \o tag(c.deaths),
                          maintenance_deaths |-> acc.maintenance_deaths \o tag(m.deaths),
                          isolated_deaths |-> acc.isolated_deaths
                              \cup {[player |-> p, death |-> d] : d \in k.deaths}])

\* GameState.start_turn: [board, players, deaths]
start_turn(b, ps, idx, growth, threshold) ==
    LET d == DeathChecks(b, ps, 0,
                         [castle_deaths |-> <<>>, maintenance_deaths |-> <<>>,
                          isolated_deaths |-> {}])
        g == IF growth THEN grow_trees(d.board, d.players, idx, threshold)
             ELSE [board |-> d.board, players |-> d.players]
        ps1 == [g.players EXCEPT ![idx].regions = player_start_turn(g.board, @)]
    IN  [board |-> reset_units_for_turn(g.board, idx), players |-> ps1, deaths |-> d.deaths]

\* a scan that stops at the next index whether that player is eliminated or not
AdvanceLoop_Once(ps, idx, t, start_idx) ==
    [idx |-> (idx + 1) % NumPlayers,
     turn |-> IF (idx + 1) % NumPlayers = 0 THEN t + 1 ELSE t]

RECURSIVE AdvanceLoop(_, _, _, _)
AdvanceLoop(ps, idx, t, start_idx) ==
    LET next_idx == (idx + 1) % NumPlayers
        next_turn == IF next_idx = 0 THEN t + 1 ELSE t
    IN  IF ~ps[next_idx].eliminated \/ next_idx = start_idx
        THEN [idx |-> next_idx, turn |-> next_turn]
        ELSE AdvanceLoop(ps, next_idx, next_turn, start_idx)

\* _advance_to_next_player that steps to the next index, eliminated or not
advance_to_next_player_NoSkip(ps, idx, t) ==
    IF Cardinality({p \in PlayerIds : ~ps[p].eliminated}) <= 1
    THEN [idx |-> idx, turn |-> t]
    ELSE [idx |-> (idx + 1) % NumPlayers,
          turn |-> IF (idx + 1) % NumPlayers = 0 THEN t + 1 ELSE t]

\* GameState._advance_to_next_player: [idx, turn]
advance_to_next_player(ps, idx, t) ==
    IF Cardinality({p \in PlayerIds : ~ps[p].eliminated}) <= 1
    THEN [idx |-> idx, turn |-> t]
    ELSE AdvanceLoop(ps, idx, t, idx)

RECURSIVE ConcatStarved(_)
ConcatStarved(outs) ==
    IF outs = <<>> THEN <<>> ELSE Head(outs).starved \o ConcatStarved(Tail(outs))

\* GameState.end_turn for one outcome list of Player.end_turn:
\* [board, players, idx, turn, starved, winner]
end_turn(b, ps, idx, t, outs) ==
    LET starved == ConcatStarved(outs)
        b1 == Starve(b, SeqSet(starved))
        ps1 == [ps EXCEPT ![idx].regions =
                   [i \in 1 .. Len(@) |-> [@[i] EXCEPT !.gold = outs[i].gold]]]
        ps2 == [p \in PlayerIds |-> [ps1[p] EXCEPT !.eliminated = check_eliminated(b1, p)]]
        adv == advance_to_next_player(ps2, idx, t)
    IN  [board |-> b1, players |-> ps2, idx |-> adv.idx, turn |-> adv.turn,
         starved |-> starved, winner |-> check_victory(ps2)]

(***************************************************************************)
(* Serialization (to_dict / from_dict of Unit, Hex, Board, Player and      *)
(* GameState).  A dict is a sequence of [key, ...] items in insertion      *)
(* order; a string key is the sequence of its characters.  The dicts hold  *)
(* the entries from_dict reads.                                            *)
(***************************************************************************)
Digits == <<"0", "1", "2", "3", "4", "5", "6", "7", "8", "9">>

RECURSIVE FormatNat(_)
FormatNat(n) ==
    IF n < 10 THEN <<Digits[n + 1]>> ELSE FormatNat(n \div 10) \o <<Digits[(n % 10) + 1]>>

\* str(n) of an int
FormatInt(n) == IF n < 0 THEN <<"-">> \o FormatNat(0 - n) ELSE FormatNat(n)

\* f"{q},{r}"
HexKey(h) == FormatInt(h[1]) \o <<",">> \o FormatInt(h[2])

DigitValue(c) == (CHOOSE i \in 1 .. 10 : Digits[i] = c) - 1

RECURSIVE ParseNat(_, _)
ParseNat(s, acc) ==
    IF s = <<>> THEN acc ELSE ParseNat(Tail(s), acc * 10 + DigitValue(Head(s)))

\* int(s)
ParseInt(s) == IF Head(s) = "-" THEN 0 - ParseNat(Tail(s), 0) ELSE ParseNat(s, 0)

RECURSIVE Split(_, _)
\* key.split(","), cur being the part read so far
Split(s, cur) ==
    IF s = <<>> THEN <<cur>>
    ELSE IF Head(s) = "," THEN <<cur>> \o Split(Tail(s), <<>>)
         ELSE Split(Tail(s), Append(cur, Head(s)))

\* q, r = map(int, key.split(","))
ParseKey(key) == <<ParseInt(Split(key, <<>>)[1]), ParseInt(Split(key, <<>>)[2])>>

\* the value None in a dict
JsonNull == [type |-> "null"]

Unit_to_dict(u) ==
    [type |-> u.type, owner |-> u.owner, strength |-> strength(u), has_moved |-> u.has_moved]

Unit_from_dict(data) == Unit(data.type, data.owner, data.has_moved)

Hex_to_dict(h, hx) ==
    [q |-> h[1], r |-> h[2], terrain |-> hx.terrain, owner |-> hx.owner,
     unit |-> IF hx.unit # NoUnit THEN Unit_to_dict(hx.unit) ELSE JsonNull]

Board_to_dict(b) ==
    [width |-> Width, height |-> Height,
     hexes |-> [i \in 1 .. Len(BoardKeys) |->
                   [key |-> HexKey(BoardKeys[i]),
                    data |-> Hex_to_dict(BoardKeys[i], b[BoardKeys[i]])]]]

\* the value a dict gives for a key: that of the last item stored under it
DictGet(items, key) ==
    items[CHOOSE i \in 1 .. Len(items) :
             /\ items[i].key = key
             /\ \A j \in (i + 1) .. Len(items) : items[j].key # key]

DictHas(items, key) == \E i \in 1 .. Len(items) : items[i].key = key

\* Board.from_dict: [keys (of board.hexes, in insertion order), hexes]
Board_from_dict(data) ==
    LET keys == [i \in 1 .. Len(data.hexes) |-> ParseKey(data.hexes[i].key)]
        last(h) == CHOOSE i \in 1 .. Len(keys) :
                      keys[i] = h /\ \A j \in (i + 1) .. Len(keys) : keys[j] # h
    IN  [keys |-> keys,
         hexes |-> [h \in SeqSet(keys) |->
                       LET hex_data == data.hexes[last(h)].data
                       IN  Hex(hex_data.terrain, hex_data.owner,
                               IF hex_data.unit # JsonNull
                               THEN Unit_from_dict(hex_data.unit) ELSE NoUnit)]]

\* Player.to_dict
Player_to_dict(b, pid, player) ==
    [id |-> pid,
     eliminated |-> player.eliminated,
     total_gold |-> SumGold(player.regions),
     region_gold |->
         LET filled == SelectSeq(player.regions, LAMBDA r : r.hexes # {})
         IN  [i \in 1 .. Len(filled) |->
                 [key |-> HexKey(MinHex(filled[i].hexes)), gold |-> filled[i].gold]]]

\* Player.from_dict without the gold of the regions
Player_from_dict_NoGold(data, b) ==
    Player(data.eliminated, update_regions(b, data.id, <<>>))

\* Player.from_dict, for a board with the keys of BoardKeys
Player_from_dict(data, b) ==
    LET regions == update_regions(b, data.id, <<>>)
    IN  Player(data.eliminated,
               [i \in 1 .. Len(regions) |->
                   IF regions[i].hexes # {}
                      /\ DictHas(data.region_gold, HexKey(MinHex(regions[i].hexes)))
                   THEN [regions[i] EXCEPT !.gold =
                            DictGet(data.region_gold, HexKey(MinHex(regions[i].hexes))).gold]
                   ELSE regions[i]])

\* GameState.to_dict
GameState_to_dict(b, ps, idx, t, growth, threshold) ==
    LET capital_hexes ==
            UNION {{capital_hex(ps[p].regions[i]) : i \in 1 .. Len(ps[p].regions)} :
                      p \in PlayerIds} \ {NoHex}
        board_dict == Board_to_dict(b)
    IN  [turn |-> t,
         current_player |-> idx,
         board |-> [board_dict EXCEPT !.hexes =
                       [i \in 1 .. Len(@) |->
                           [key |-> @[i].key,
                            data |-> @[i].data,
                            has_capital |-> ParseKey(@[i].key) \in capital_hexes]]],
         players |-> [i \in 1 .. NumPlayers |-> Player_to_dict(b, i - 1, ps[i - 1])],
         tree_growth_enabled |-> growth,
         tree_spread_threshold |-> threshold]

\* GameState.from_dict
GameState_from_dict(data) ==
    LET loaded == Board_from_dict(data.board)
    IN  [keys |-> loaded.keys,
         board |-> loaded.hexes,
         players |-> [p \in PlayerIds |->
                         Player_from_dict(
                             data.players[CHOOSE i \in 1 .. Len(data.players) :
                                             data.players[i].id = p],
                             loaded.hexes)],
         current_player_idx |-> data.current_player,
         turn |-> data.turn,
         tree_growth_enabled |-> data.tree_growth_enabled,
         tree_spread_threshold |-> data.tree_spread_threshold]

(***************************************************************************)
(* History (history/action.py, history/snapshot.py, history/manager.py)    *)
(* and GameState.from_snapshot.                                            *)
(***************************************************************************)
\* HistoryManager(): snapshots is a dict from snapshot id to snapshot
HistoryManager ==
    [actions |-> <<>>, snapshots |-> <<>>, action_sequence |-> 0, snapshot_sequence |-> 0]

\* GameAction; the timestamp is left out
GameAction(action_type, player_id, t, sequence, params, res) ==
    [action_type |-> action_type, player_id |-> player_id, turn |-> t,
     sequence |-> sequence, params |-> params, result |-> res]

\* HistoryManager.record_action
record_action(h, action_type, player_id, t, params, res) ==
    [h EXCEPT !.actions = Append(@, GameAction(action_type, player_id, t,
                                               h.action_sequence, params, res)),
              !.action_sequence = @ + 1]

\* StateSnapshot.capture
StateSnapshot_capture(b, ps, idx, t, action_count) ==
    [turn |-> t,
     current_player_idx |-> idx,
     board_data |-> Board_to_dict(b),
     players_data |-> [i \in 1 .. NumPlayers |-> Player_to_dict(b, i - 1, ps[i - 1])],
     action_count |-> action_count]

\* d[key] = value of a dict held as a function
DictSet(d, key, value) ==
    [k \in DOMAIN d \cup {key} |-> IF k = key THEN value ELSE d[k]]

\* HistoryManager.capture_snapshot
capture_snapshot(h, b, ps, idx, t) ==
    [h EXCEPT !.snapshot_sequence = @ + 1,
              !.snapshots = DictSet(@, h.snapshot_sequence + 1,
                                    StateSnapshot_capture(b, ps, idx, t, Len(h.actions)))]

\* GameState.from_snapshot (StateSnapshot.restore)
from_snapshot(snapshot) ==
    LET loaded == Board_from_dict(snapshot.board_data)
    IN  [board |-> loaded.hexes,
         players |-> [p \in PlayerIds |->
                         Player_from_dict(snapshot.players_data[p + 1], loaded.hexes)],
         current_player_idx |-> snapshot.current_player_idx,
         turn |-> snapshot.turn,
         tree_growth_enabled |-> TRUE,
         tree_spread_threshold |-> 2]

\* the first n items of a list: xs[:n]
Prefix(xs, n) == [i \in 1 .. Min(n, Len(xs)) |-> xs[i]]

\* undo_to_snapshot that keeps the whole action log
undo_to_snapshot_KeepLog(h, snapshot_id) ==
    [h EXCEPT !.snapshots = [sid \in {k \in DOMAIN h.snapshots : k <= snapshot_id} |->
                                h.snapshots[sid]],
              !.snapshot_sequence = snapshot_id]

\* undo_to_snapshot that leaves the sequence counter of the log where it was
undo_to_snapshot_KeepCounter(h, snapshot_id) ==
    [h EXCEPT !.actions = Prefix(@, h.snapshots[snapshot_id].action_count),
              !.snapshots = [sid \in {k \in DOMAIN h.snapshots : k <= snapshot_id} |->
                                h.snapshots[sid]],
              !.snapshot_sequence = snapshot_id]

\* HistoryManager.undo_to_snapshot for a known snapshot id: the manager left
undo_to_snapshot(h, snapshot_id) ==
    LET kept == Prefix(h.actions, h.snapshots[snapshot_id].action_count)
    IN  [actions |-> kept,
         action_sequence |-> Len(kept),
         snapshots |-> [sid \in {k \in DOMAIN h.snapshots : k <= snapshot_id} |->
                           h.snapshots[sid]],
         snapshot_sequence |-> snapshot_id]

(***************************************************************************)
(* Initial states: GameState(board, players) for the boards below.         *)
(***************************************************************************)
\* no turn of an AI player is being run
NoTurn ==
    [status |-> "idle", player_id |-> NoPlayer, pending |-> <<>>, ended |-> FALSE,
     detached |-> FALSE, undone_to |-> 0, game_state |-> <<>>]

L(o) == Hex("land", o, NoUnit)
U(o, t) == Hex("land", o, Unit(t, o, FALSE))
T(o) == Hex("tree", o, NoUnit)
Sea == Hex("sea", NoOwner, NoUnit)

\* the hexes of a board, row by row in BoardKeys order
InitBoards ==
    { << U(0, "castle"),  Sea,
         L(0),            U(1, "knight"),
         L(0),            U(1, "castle") >>,
      << U(0, "castle"),  L(0),
         L(0),            U(1, "knight"),
         U(0, "castle"),  U(1, "castle") >>,
      << U(0, "castle"),  U(0, "spearman"),
         L(0),            U(1, "peasant"),
         T(NoOwner),      U(1, "castle") >>,
      << U(0, "castle"),  L(0),
         U(1, "castle"),  U(2, "castle"),
         L(1),            L(2) >> }

BoardOf(rows) == [h \in Coords |-> rows[CHOOSE i \in 1 .. Len(BoardKeys) : BoardKeys[i] = h]]

TreeConfigs == {<<TRUE, 2>>, <<FALSE, 1>>}

Init ==
    /\ \E rows \in InitBoards :
          /\ board = BoardOf(rows)
          /\ players = post_init(BoardOf(rows))
    /\ current_player_idx = 0
    /\ turn = 1
    /\ \E c \in TreeConfigs :
          /\ tree_growth_enabled = c[1]
          /\ tree_spread_threshold = c[2]
    /\ result = [op |-> "init"]
    /\ steps = 0
    /\ history = HistoryManager
    /\ waiting_for_human = NoPlayer
    /\ in_flight = NoTurn

(***************************************************************************)
(* Actions: the public operations of GameState.                            *)
(***************************************************************************)
\* start_turn that hands the turn on when the current player has lost all land
StartTurn_Advancing ==
    \E st \in {start_turn(board, players, current_player_idx,
                          tree_growth_enabled, tree_spread_threshold)} :
        \E adv \in {IF st.players[current_player_idx].regions = <<>>
                     THEN advance_to_next_player(st.players, current_player_idx, turn)
                     ELSE [idx |-> current_player_idx, turn |-> turn]} :
            /\ board' = st.board
            /\ players' = st.players
            /\ result' = [op |-> "start_turn",
                          castle_deaths |-> st.deaths.castle_deaths,
                          maintenance_deaths |-> st.deaths.maintenance_deaths,
                          isolated_deaths |-> st.deaths.isolated_deaths]
            /\ current_player_idx' = adv.idx
            /\ turn' = adv.turn
            /\ UNCHANGED <<tree_growth_enabled, tree_spread_threshold>>

StartTurn ==
    \E st \in {start_turn(board, players, current_player_idx,
                          tree_growth_enabled, tree_spread_threshold)} :
        /\ board' = st.board
        /\ players' = st.players
        /\ result' = [op |-> "start_turn",
                      castle_deaths |-> st.deaths.castle_deaths,
                      maintenance_deaths |-> st.deaths.maintenance_deaths,
                      isolated_deaths |-> st.deaths.isolated_deaths]
        /\ UNCHANGED <<current_player_idx, turn, tree_growth_enabled, tree_spread_threshold>>

\* GameState.move_unit; result is the returned action without the echo of the inputs
MoveUnit(from_hex, to_hex) ==
    \E m \in {execute_move(board, players, current_player_idx, from_hex, to_hex)} :
        /\ board' = m.board
        /\ players' = m.players
        /\ result' = [op |-> "move", success |-> m.res.success, message |-> m.res.message,
                      killed |-> m.res.killed_unit, merged_into |-> m.res.merged_into,
                      conquered |-> m.res.conquered_hex]
        /\ UNCHANGED <<current_player_idx, turn, tree_growth_enabled, tree_spread_threshold>>

\* GameState.buy_unit; result is the returned action without the echo of the inputs
BuyUnit(unit_type, target_hex) ==
    /\ IF unit_type \notin UnitTypes
       THEN /\ result' = [op |-> "buy", success |-> FALSE,
                           message |-> [text |-> "Invalid unit type", args |-> <<unit_type>>]]
            /\ UNCHANGED <<board, players>>
       ELSE \E m \in {execute_buy(board, players, current_player_idx,
                                  unit_type, target_hex)} :
                /\ board' = m.board
                /\ players' = m.players
                /\ result' = [op |-> "buy", success |-> m.res.success, message |-> m.res.message]
    /\ UNCHANGED <<current_player_idx, turn, tree_growth_enabled, tree_spread_threshold>>

EndTurn ==
    \E outs \in EndTurnOutcomes(board, players[current_player_idx].regions) :
        \E e \in {end_turn(board, players, current_player_idx, turn, outs)} :
            /\ board' = e.board
            /\ players' = e.players
            /\ current_player_idx' = e.idx
            /\ turn' = e.turn
            /\ result' = [op |-> "end_turn", success |-> TRUE,
                          starved_hexes |-> e.starved, winner |-> e.winner]
            /\ UNCHANGED <<tree_growth_enabled, tree_spread_threshold>>

Step(A) ==
    /\ steps < MaxSteps
    /\ steps' = steps + 1
    /\ A
    /\ UNCHANGED <<history, waiting_for_human, in_flight>>

Next ==
    \/ Step(StartTurn)
    \/ \E from_hex \in Coords \cup {OffBoard}, to_hex \in Coords \cup {OffBoard} :
          Step(MoveUnit(from_hex, to_hex))
    \/ \E unit_type \in UnitTypes \cup {"dragon"}, target_hex \in Coords \cup {OffBoard} :
          Step(BuyUnit(unit_type, target_hex))
    \/ Step(EndTurn)

Spec == Init /\ [][Next]_vars

(***************************************************************************)
(* Actions of a game with history: the calls of GameOrchestrator, every    *)
(* player being human (orchestrator.py, controllers/human.py).             *)
(***************************************************************************)
\* run_current_turn: start_turn, the TURN_START record, the snapshot, then waiting
RunCurrentTurn ==
    /\ StartTurn
    /\ history' = capture_snapshot(
                      record_action(history, "turn_start", current_player_idx, turn,
                                    <<>>, <<>>),
                      board', players', current_player_idx, turn)
    /\ waiting_for_human' = current_player_idx

\* submit_human_action that stays waiting after an end_turn
SubmitHumanAction_KeepWaiting(action, Call) ==
    IF waiting_for_human = NoPlayer
    THEN /\ result' = [op |-> "submit", status |-> "error",
                       message |-> "Not waiting for human input"]
         /\ UNCHANGED <<board, players, current_player_idx, turn, tree_growth_enabled,
                        tree_spread_threshold, history, waiting_for_human>>
    ELSE /\ Call
         /\ history' = record_action(history, action.type, waiting_for_human, turn',
                                     action, result')
         /\ UNCHANGED waiting_for_human

\* submit_human_action without its test of waiting_for_human
SubmitHumanAction_Unguarded(action, Call) ==
    /\ Call
    /\ history' = record_action(history, action.type, waiting_for_human, turn',
                                action, result')
    /\ waiting_for_human' =
           IF action.type = "end_turn" THEN NoPlayer ELSE waiting_for_human

\* submit_human_action: the call the controller makes on the game state, then
\* the record with the turn read after that call
SubmitHumanAction(action, Call) ==
    IF waiting_for_human = NoPlayer
    THEN /\ result' = [op |-> "submit", status |-> "error",
                       message |-> "Not waiting for human input"]
         /\ UNCHANGED <<board, players, current_player_idx, turn, tree_growth_enabled,
                        tree_spread_threshold, history, waiting_for_human>>
    ELSE /\ Call
         /\ history' = record_action(history, action.type, waiting_for_human, turn',
                                     action, result')
         /\ waiting_for_human' =
                IF action.type = "end_turn" THEN NoPlayer ELSE waiting_for_human

SubmitMove(from_hex, to_hex) ==
    SubmitHumanAction([type |-> "move", from |-> from_hex, to |-> to_hex],
                      MoveUnit(from_hex, to_hex))

SubmitBuy(unit_type, target_hex) ==
    SubmitHumanAction([type |-> "buy", unit_type |-> unit_type, target |-> target_hex],
                      BuyUnit(unit_type, target_hex))

SubmitEndTurn == SubmitHumanAction([type |-> "end_turn"], EndTurn)

\* GameOrchestrator.undo_to_snapshot: ValueError of an unknown id answered False.
\* The result notes whether the call before was the same undo (repeated) and
\* how many snapshots and log entries the call discarded.
UndoToSnapshot(snapshot_id) ==
    IF snapshot_id \notin DOMAIN history.snapshots
    THEN /\ result' = [op |-> "undo", success |-> FALSE, snapshot_id |-> snapshot_id,
                       repeated |-> FALSE, discarded_snapshots |-> 0,
                       discarded_actions |-> 0]
         /\ UNCHANGED <<board, players, current_player_idx, turn, tree_growth_enabled,
                        tree_spread_threshold, history, waiting_for_human>>
    ELSE \E state \in {from_snapshot(history.snapshots[snapshot_id])} :
            /\ board' = state.board
            /\ players' = state.players
            /\ current_player_idx' = state.current_player_idx
            /\ turn' = state.turn
            /\ tree_growth_enabled' = state.tree_growth_enabled
            /\ tree_spread_threshold' = state.tree_spread_threshold
            /\ history' = undo_to_snapshot(history, snapshot_id)
            /\ waiting_for_human' = NoPlayer
            /\ result' = [op |-> "undo", success |-> TRUE, snapshot_id |-> snapshot_id,
                          repeated |-> /\ result.op = "undo"
                                       /\ result.success
                                       /\ result.snapshot_id = snapshot_id,
                          discarded_snapshots |->
                              Cardinality(DOMAIN history.snapshots)
                                  - Cardinality(DOMAIN history'.snapshots),
                          discarded_actions |->
                              Len(history.actions) - Len(history'.actions)]

\* the moves, purchases and snapshot ids submitted in a game with history
SubmittedMoves == {<<<<1, 0>>, <<0, 1>>>>, <<<<1, 0>>, <<1, 1>>>>, <<<<1, 1>>, <<0, 1>>>>}
SubmittedBuys == {<<"peasant", <<0, 1>>>>}
SubmittedIds == 0 .. 2

Call(A) == steps < MaxCalls /\ steps' = steps + 1 /\ A /\ UNCHANGED in_flight

HistoryNext ==
    \/ Call(RunCurrentTurn)
    \/ \E m \in SubmittedMoves : Call(SubmitMove(m[1], m[2]))
    \/ \E b \in SubmittedBuys : Call(SubmitBuy(b[1], b[2]))
    \/ Call(SubmitEndTurn)
    \/ \E snapshot_id \in SubmittedIds : Call(UndoToSnapshot(snapshot_id))

HistorySpec == Init /\ [][HistoryNext]_vars

(***************************************************************************)
(* A game played by AI players: run_current_turn of an AI controller is a  *)
(* coroutine that is suspended at each await of the per-action callback    *)
(* (orchestrator.py 116-133, controllers/classic_ai.py), and                *)
(* undo_to_snapshot may be called while it is suspended.  The code between  *)
(* two awaits runs without interruption and is one action here.  in_flight  *)
(* is the suspended coroutine: the player of the turn, the actions not yet  *)
(* reported, whether end_turn was called, and, once an undo has replaced    *)
(* the orchestrator's game_state, the GameState object the coroutine still  *)
(* holds (detached, game_state) and the snapshot id of that undo.           *)
(***************************************************************************)
\* the actions an AI player may try, and the lists of them it may play
AiActions ==
    {[type |-> "move", from |-> m[1], to |-> m[2]] : m \in SubmittedMoves}
        \cup {[type |-> "buy", unit_type |-> b[1], target |-> b[2]] : b \in SubmittedBuys}

AiPlans == UNION {[1 .. n -> AiActions] : n \in 0 .. MaxAiActions}

\* the phase of ClassicAI.play_turn an action belongs to: attacks and claims
\* with existing units, purchases, internal moves
PhaseOf(b, player_id, action) ==
    IF action.type = "buy" THEN 2
    ELSE IF action.to \in Coords /\ b[action.to].owner # player_id THEN 1
    ELSE 3

\* ClassicAI.play_turn for one choice of actions: the three phases in order,
\* each action carried out by move_unit or buy_unit and kept when it
\* succeeded.  Which accepted action the heuristic scores pick is left open;
\* ok tells whether the plan is one the AI can have played.
\* [board, players, ok, actions]
RECURSIVE play_turn(_, _, _, _, _)
play_turn(b, ps, player_id, plan, phase) ==
    IF plan = <<>> THEN [board |-> b, players |-> ps, ok |-> TRUE, actions |-> <<>>]
    ELSE LET action == Head(plan)
             m == IF action.type = "move"
                  THEN execute_move(b, ps, player_id, action.from, action.to)
                  ELSE execute_buy(b, ps, player_id, action.unit_type, action.target)
         IN  IF PhaseOf(b, player_id, action) < phase
             THEN [board |-> b, players |-> ps, ok |-> FALSE, actions |-> <<>>]
             ELSE \* done: the answer of the rules, evaluated once
                  CHOOSE out \in
                      {IF ~done.res.success
                       THEN [board |-> b, players |-> ps, ok |-> FALSE, actions |-> <<>>]
                       ELSE LET rest == play_turn(done.board, done.players, player_id,
                                                  Tail(plan),
                                                  PhaseOf(b, player_id, action))
                            IN  [rest EXCEPT !.actions =
                                    <<[action |-> action, result |-> done.res]>> \o @] :
                          done \in {m}} : TRUE

\* the GameState object held in the variables of the orchestrator
TheGameState ==
    [board |-> board, players |-> players, current_player_idx |-> current_player_idx,
     turn |-> turn]

\* run_current_turn of an AI player up to its first await: start_turn, the
\* TURN_START record and the snapshot, the whole play_turn of the AI, then
\* either the record of the first action or, when the AI did nothing,
\* end_turn and its record
AiRunCurrentTurn(plan) ==
    /\ in_flight.status = "idle"
    /\ \E st \in {start_turn(board, players, current_player_idx,
                             tree_growth_enabled, tree_spread_threshold)} :
       \E played \in {play_turn(st.board, st.players, current_player_idx, plan, 1)} :
       \E h1 \in {capture_snapshot(
                      record_action(history, "turn_start", current_player_idx, turn,
                                    <<>>, <<>>),
                      st.board, st.players, current_player_idx, turn)} :
          /\ played.ok
          /\ IF played.actions # <<>>
             THEN /\ board' = played.board
                  /\ players' = played.players
                  /\ UNCHANGED <<current_player_idx, turn>>
                  /\ history' = record_action(h1, played.actions[1].action.type,
                                              current_player_idx, turn,
                                              played.actions[1].action,
                                              played.actions[1].result)
                  /\ in_flight' = [NoTurn EXCEPT !.status = "suspended",
                                                 !.player_id = current_player_idx,
                                                 !.pending = Tail(played.actions)]
             ELSE \E outs \in EndTurnOutcomes(played.board,
                                              played.players[current_player_idx].regions) :
                  \E e \in {end_turn(played.board, played.players, current_player_idx,
                                     turn, outs)} :
                     /\ board' = e.board
                     /\ players' = e.players
                     /\ current_player_idx' = e.idx
                     /\ turn' = e.turn
                     /\ history' = record_action(h1, "end_turn", current_player_idx,
                                                 e.turn, [type |-> "end_turn"],
                                                 [starved_hexes |-> e.starved,
                                                  winner |-> e.winner])
                     /\ in_flight' = [NoTurn EXCEPT !.status = "suspended",
                                                    !.player_id = current_player_idx,
                                                    !.ended = TRUE]
    /\ result' = [op |-> "ai_turn", status |-> "suspended"]
    /\ UNCHANGED <<tree_growth_enabled, tree_spread_threshold, waiting_for_human>>

\* the coroutine resumes after an await and runs to the next one: the record
\* of the next action; or end_turn on the GameState object it holds and the
\* record of it, with the turn of the orchestrator's game_state; or its
\* return
AiResume ==
    /\ in_flight.status = "suspended"
    /\ UNCHANGED <<tree_growth_enabled, tree_spread_threshold, waiting_for_human>>
    /\ IF in_flight.pending # <<>>
       THEN /\ history' = record_action(history, Head(in_flight.pending).action.type,
                                        in_flight.player_id, turn,
                                        Head(in_flight.pending).action,
                                        Head(in_flight.pending).result)
            /\ in_flight' = [in_flight EXCEPT !.pending = Tail(@)]
            /\ result' = [op |-> "ai_turn", status |-> "suspended"]
            /\ UNCHANGED <<board, players, current_player_idx, turn>>
       ELSE IF ~in_flight.ended
       THEN \E g \in {IF in_flight.detached THEN in_flight.game_state ELSE TheGameState} :
            \E outs \in EndTurnOutcomes(g.board, g.players[g.current_player_idx].regions) :
            \E e \in {end_turn(g.board, g.players, g.current_player_idx, g.turn, outs)} :
               /\ IF in_flight.detached
                  THEN /\ UNCHANGED <<board, players, current_player_idx, turn>>
                       /\ in_flight' =
                              [in_flight EXCEPT
                                  !.ended = TRUE,
                                  !.game_state =
                                      [board |-> e.board, players |-> e.players,
                                       current_player_idx |-> e.idx, turn |-> e.turn]]
                  ELSE /\ board' = e.board
                       /\ players' = e.players
                       /\ current_player_idx' = e.idx
                       /\ turn' = e.turn
                       /\ in_flight' = [in_flight EXCEPT !.ended = TRUE]
               /\ history' = record_action(history, "end_turn", in_flight.player_id,
                                           turn', [type |-> "end_turn"],
                                           [starved_hexes |-> e.starved,
                                            winner |-> e.winner])
               /\ result' = [op |-> "ai_turn", status |-> "suspended"]
       ELSE /\ in_flight' = NoTurn
            /\ result' = [op |-> "ai_turn", status |-> "turn_complete"]
            /\ UNCHANGED <<board, players, current_player_idx, turn, history>>

\* undo_to_snapshot called from another task: when a coroutine is suspended
\* it keeps the GameState object the orchestrator has just replaced
AiUndo(snapshot_id) ==
    /\ UndoToSnapshot(snapshot_id)
    /\ in_flight' =
           IF snapshot_id \in DOMAIN history.snapshots /\ in_flight.status = "suspended"
           THEN [in_flight EXCEPT
                    !.detached = TRUE,
                    !.undone_to = snapshot_id,
                    !.game_state = IF in_flight.detached THEN @ ELSE TheGameState]
           ELSE in_flight

AiCall(A) == steps < MaxAiSteps /\ steps' = steps + 1 /\ A

AiNext ==
    \/ \E plan \in AiPlans : AiCall(AiRunCurrentTurn(plan))
    \/ AiCall(AiResume)
    \/ \E snapshot_id \in SubmittedIds : AiCall(AiUndo(snapshot_id))

AiSpec == Init /\ [][AiNext]_vars

(***************************************************************************)
(* A game played turn by turn: each turn is begun by run_current_turn,     *)
(* which the game loop calls only while no human turn is open              *)
(* (web/server.py, run_game_loop), then played by submitted moves and      *)
(* purchases and closed by a submitted end_turn.                           *)
(***************************************************************************)
\* the hexes of a board, row by row in BoardKeys order: a region with a
\* castle and a tree beside the single hex of player 1; three players with a
\* castle each
PlayBoards ==
    { << U(0, "castle"),  T(0),
         L(0),            L(1),
         Sea,             Sea >>,
      << U(0, "castle"),  L(0),
         U(1, "castle"),  U(2, "castle"),
         L(1),            L(2) >> }

PlayInit ==
    /\ \E rows \in PlayBoards :
          /\ board = BoardOf(rows)
          /\ players = post_init(BoardOf(rows))
    /\ current_player_idx = 0
    /\ turn = 1
    /\ \E c \in TreeConfigs :
          /\ tree_growth_enabled = c[1]
          /\ tree_spread_threshold = c[2]
    /\ result = [op |-> "init"]
    /\ steps = 0
    /\ history = HistoryManager
    /\ waiting_for_human = NoPlayer
    /\ in_flight = NoTurn

\* the game loop in a game without history (enable_history off):
\* run_current_turn, unless a human turn is open
PlayTurn ==
    /\ waiting_for_human = NoPlayer
    /\ StartTurn
    /\ waiting_for_human' = current_player_idx
    /\ UNCHANGED history

\* submit_human_action while a human turn is open, in a game without history
PlaySubmit(type, Operation) ==
    /\ waiting_for_human # NoPlayer
    /\ Operation
    /\ waiting_for_human' = IF type = "end_turn" THEN NoPlayer ELSE waiting_for_human
    /\ UNCHANGED history

PlayCall(A) == steps < MaxPlaySteps /\ steps' = steps + 1 /\ A /\ UNCHANGED in_flight

PlayNext ==
    \/ PlayCall(PlayTurn)
    \/ \E from_hex \in Coords, to_hex \in Coords :
          PlayCall(PlaySubmit("move", MoveUnit(from_hex, to_hex)))
    \/ \E unit_type \in UnitTypes, target_hex \in Coords :
          PlayCall(PlaySubmit("buy", BuyUnit(unit_type, target_hex)))
    \/ PlayCall(PlaySubmit("end_turn", EndTurn))

PlaySpec == PlayInit /\ [][PlayNext]_vars

(***************************************************************************)
(* Games set up for purchases onto hexes the buyer does not own and for     *)
(* merges.                                                                 *)
(***************************************************************************)
\* the hexes of a board, row by row in BoardKeys order: two peasants beside a
\* spearman; a poor and a rich region beside a hex of player 1, the poor one
\* first in neighbour order; two rich regions beside it; a poor region
\* beside it and a rich one away from it; unowned land and an unowned tree
\* beside a region; two barons, two spearmen, a castle and a knight of one
\* player side by side; a peasant in one of two regions that a hex of player 1
\* keeps apart
PurchaseBoards ==
    { << U(0, "peasant"), U(0, "peasant"),
         L(0),            U(1, "spearman"),
         L(0),            Sea >>,
      << Sea,             L(0),
         Sea,             L(1),
         L(0),            L(0) >>,
      << L(0),            L(0),
         Sea,             L(1),
         L(0),            L(0) >>,
      << L(0),            L(1),
         Sea,             Sea,
         L(0),            L(0) >>,
      << U(0, "castle"),  L(0),
         L(NoOwner),      L(1),
         T(NoOwner),      U(1, "castle") >>,
      << U(0, "baron"),   U(0, "baron"),
         U(0, "spearman"), U(0, "spearman"),
         U(0, "castle"),  U(0, "knight") >>,
      << U(0, "peasant"), L(0),
         L(1),            Sea,
         L(0),            L(0) >> }

PurchaseInit ==
    /\ \E rows \in PurchaseBoards :
          /\ board = BoardOf(rows)
          /\ players = post_init(BoardOf(rows))
    /\ current_player_idx = 0
    /\ turn = 1
    /\ \E c \in TreeConfigs :
          /\ tree_growth_enabled = c[1]
          /\ tree_spread_threshold = c[2]
    /\ result = [op |-> "init"]
    /\ steps = 0
    /\ history = HistoryManager
    /\ waiting_for_human = NoPlayer
    /\ in_flight = NoTurn

PurchaseStep(A) ==
    /\ steps < MaxPurchaseSteps
    /\ steps' = steps + 1
    /\ A
    /\ UNCHANGED <<history, waiting_for_human, in_flight>>

PurchaseNext ==
    \/ PurchaseStep(StartTurn)
    \/ \E from_hex \in Coords \cup {OffBoard}, to_hex \in Coords \cup {OffBoard} :
          PurchaseStep(MoveUnit(from_hex, to_hex))
    \/ \E unit_type \in UnitTypes \cup {"dragon"}, target_hex \in Coords \cup {OffBoard} :
          PurchaseStep(BuyUnit(unit_type, target_hex))
    \/ PurchaseStep(EndTurn)

PurchaseSpec == PurchaseInit /\ [][PurchaseNext]_vars

(***************************************************************************)
(* Properties.                                                             *)
(***************************************************************************)
\* a set of hexes no proper part of which is cut off from the rest
Connected(hs) ==
    \A part \in SUBSET hs :
        (part # {} /\ part # hs) =>
            \E h \in part, g \in hs \ part : g \in NeighborSet(h)

RegionHexes(p) == {players[p].regions[i].hexes : i \in 1 .. Len(players[p].regions)}

\* C1: region partition invariant.  In every reachable state, for every
\* player, the hex sets of player.regions are pairwise disjoint, each is a
\* maximal connected set of hexes owned by that player, and their union is
\* exactly the set of hexes the player owns.
C1_RegionPartition ==
    \A p \in PlayerIds :
        LET regions == players[p].regions
            owned == {h \in Coords : board[h].owner = p}
        IN  /\ \A i, j \in 1 .. Len(regions) :
                  i # j => regions[i].hexes \cap regions[j].hexes = {}
            /\ \A i \in 1 .. Len(regions) :
                  /\ regions[i].hexes # {}
                  /\ regions[i].hexes \subseteq owned
                  /\ Connected(regions[i].hexes)
                  /\ \A h \in regions[i].hexes :
                        \A n \in NeighborSet(h) : n \in owned => n \in regions[i].hexes
            /\ UNION RegionHexes(p) = owned

\* a capture has just cut a player's territory in two
C1_Witness ==
    /\ result.op = "move" /\ result.success /\ result.conquered
    /\ \E p \in PlayerIds : p # current_player_idx /\ Len(players[p].regions) >= 2

\* C2: a rejected action has no effect.  Whenever move_unit or buy_unit
\* answers success = FALSE, every hex (terrain, owner, unit with its has_moved
\* flag), every region (hex set and gold), the current player index and the
\* turn counter are what they were before the call.
C2_RejectedNoEffect ==
    [][(result'.op \in {"move", "buy"} /\ ~result'.success) =>
          /\ board' = board
          /\ players' = players
          /\ current_player_idx' = current_player_idx
          /\ turn' = turn]_vars

\* a move was rejected for the defense of its target
C2_Witness ==
    /\ result.op = "move" /\ ~result.success
    /\ result.message.text = "Defense too strong"

\* the case of C3: a mobile unit of the current player that has not acted,
\* and an adjacent hex that is not sea and belongs to an opponent
IsAttack(from_hex, to_hex) ==
    /\ board[from_hex].unit # NoUnit
    /\ board[from_hex].unit.owner = current_player_idx
    /\ is_mobile(board[from_hex].unit)
    /\ ~board[from_hex].unit.has_moved
    /\ to_hex \in NeighborSet(from_hex)
    /\ board[to_hex].terrain # "sea"
    /\ board[to_hex].owner \notin {NoOwner, current_player_idx}

\* C3: combat strict inequality.  An attack move succeeds if and only if the
\* unit's strength is strictly greater than get_defense_strength(target):
\* equal strength is rejected, strength one greater succeeds.
C3_CombatStrict ==
    \A from_hex \in Coords, to_hex \in Coords :
        IsAttack(from_hex, to_hex) =>
            (execute_move(board, players, current_player_idx, from_hex, to_hex).res.success
                <=> strength(board[from_hex].unit)
                        > get_defense_strength(board, players, to_hex))

\* an attack with strength equal to the defense has just been rejected
C3_Witness ==
    /\ result.op = "move" /\ ~result.success
    /\ result.message.text = "Defense too strong"
    /\ result.message.args[1] = result.message.args[2]
    /\ \E from_hex \in Coords, to_hex \in Coords :
          /\ IsAttack(from_hex, to_hex)
          /\ strength(board[from_hex].unit) = get_defense_strength(board, players, to_hex)

\* the hex is the capital hex of its region
IsCapitalHex(h) ==
    \E i \in 1 .. Len(players[board[h].owner].regions) :
        LET r == players[board[h].owner].regions[i]
        IN  h \in r.hexes /\ r.has_capital /\ \A g \in r.hexes : LexLE(h, g)

\* what defends a hex: its unit, its being a capital, and the capitals and
\* units on the adjacent hexes of the same owner
DefenseContributions(h) ==
    LET friends == {n \in NeighborSet(h) : board[n].owner = board[h].owner}
    IN  {strength(board[g].unit) : g \in {x \in friends \cup {h} : board[x].unit # NoUnit}}
        \cup {1 : g \in {x \in friends \cup {h} : IsCapitalHex(x)}}

\* C4: get_defense_strength is 0 for an unowned hex and otherwise the maximum
\* of the strength of the unit on the hex, 1 if the hex is the capital hex of
\* its region, 1 if an adjacent hex of the same owner is a capital hex, and
\* the strength of every unit on an adjacent hex of the same owner (0 if
\* there is none); other owners' units and capitals do not count.
C4_DefenseStrength ==
    \A h \in Coords :
        LET d == get_defense_strength(board, players, h)
        IN  IF board[h].owner = NoOwner THEN d = 0
            ELSE /\ d \in DefenseContributions(h) \cup {0}
                 /\ \A c \in DefenseContributions(h) : c <= d

\* an attack was rejected by a defense of 1 that only an adjacent capital gives
C4_Witness ==
    /\ result.op = "move" /\ ~result.success
    /\ result.message.text = "Defense too strong"
    /\ \E h \in Coords :
          /\ board[h].owner \notin {NoOwner, current_player_idx}
          /\ board[h].unit = NoUnit /\ ~IsCapitalHex(h)
          /\ \A n \in NeighborSet(h) :
                board[n].owner = board[h].owner => board[n].unit = NoUnit
          /\ \E n \in NeighborSet(h) : board[n].owner = current_player_idx
          /\ get_defense_strength(board, players, h) = 1
          /\ result.message.args[1] = 1

\* C5: capital gold cap.  In every reachable state a region without a
\* capital (a single hex) holds at most 10 gold.
C5_GoldCap ==
    \A p \in PlayerIds :
        \A i \in 1 .. Len(players[p].regions) :
            ~players[p].regions[i].has_capital => players[p].regions[i].gold <= 10

\* a split has left a single hex with the full 10 gold, out of a region that
\* held more
C5_Witness ==
    /\ result.op = "move" /\ result.conquered
    /\ \E p \in PlayerIds :
          \E i \in 1 .. Len(players[p].regions) :
              /\ ~players[p].regions[i].has_capital
              /\ players[p].regions[i].gold = 10

\* pay_upkeep on region i of the player ending the turn, as C6 states it
UpkeepPaidAsClaimed(i) ==
    LET r == players[current_player_idx].regions[i]
        gold_after == players'[current_player_idx].regions[i].gold
        maintenance == Cardinality(r.hexes) - 1
        units == {h \in r.hexes : board[h].unit # NoUnit}
        removed == SelectSeq(result'.starved_hexes, LAMBDA h : h \in r.hexes)
        gone(k) == {removed[j] : j \in 1 .. k}
        survivors == units \ gone(Len(removed))
        left == r.gold - maintenance
    IN  /\ r.gold >= maintenance + SumUpkeep(board, units) =>
              /\ removed = <<>>
              /\ gold_after = r.gold - (maintenance + SumUpkeep(board, units))
              /\ \A h \in r.hexes : board'[h] = board[h]
        /\ (r.gold >= maintenance /\ r.gold < maintenance + SumUpkeep(board, units)) =>
              /\ gone(Len(removed)) \subseteq units
              /\ Cardinality(gone(Len(removed))) = Len(removed)
              /\ \A k \in 1 .. (Len(removed) - 1) :
                    upkeep(board[removed[k]].unit) <= upkeep(board[removed[k + 1]].unit)
              /\ \A h \in gone(Len(removed)), g \in survivors :
                    upkeep(board[h].unit) <= upkeep(board[g].unit)
              /\ \A k \in 0 .. (Len(removed) - 1) :
                    left < SumUpkeep(board, units \ gone(k))
              /\ left >= SumUpkeep(board, survivors)
              /\ \A h \in gone(Len(removed)) :
                    board'[h].unit = NoUnit /\ board'[h].terrain = "grave"
              /\ \A h \in r.hexes \ gone(Len(removed)) : board'[h] = board[h]
              /\ gold_after = left - SumUpkeep(board, survivors)

\* C6: upkeep starvation order.  When pay_upkeep runs on a region whose gold
\* covers the territory maintenance but not maintenance plus unit upkeep,
\* units are removed in non-decreasing order of upkeep, removal stops at the
\* first point where the gold left after maintenance covers the upkeep of the
\* survivors, each removed unit's hex becomes a grave, and the gold afterwards
\* is gold - maintenance - upkeep of the survivors; when the gold covers the
\* total, no unit is removed and the gold decreases by exactly the total.
C6_StarvationOrder ==
    [][result'.op = "end_turn" =>
          \A i \in 1 .. Len(players[current_player_idx].regions) :
              UpkeepPaidAsClaimed(i)]_vars

\* an end of turn starved some units of a region and spared a dearer one
C6_Witness ==
    /\ result.op = "end_turn"
    /\ Len(result.starved_hexes) >= 2
    /\ \E p \in PlayerIds :
          \E i \in 1 .. Len(players[p].regions) :
              /\ result.starved_hexes[1] \in players[p].regions[i].hexes
              /\ \E h \in players[p].regions[i].hexes : board[h].unit # NoUnit

\* region r of player p dies in full in this step
DiesInFull(p, r) ==
    /\ \A h \in r.hexes :
          /\ board'[h].owner = NoOwner
          /\ board'[h].unit = NoUnit
          /\ board'[h].terrain = IF board[h].unit # NoUnit THEN "grave" ELSE board[h].terrain
    /\ \A j \in 1 .. Len(players'[p].regions) :
          players'[p].regions[j].hexes \cap r.hexes = {}

\* C7: start-of-turn maintenance death.  When start_turn runs, every region
\* of a non-eliminated player whose gold, before any income of that
\* start_turn, is less than (hexes - 1) plus the upkeep of its units dies in
\* full: its hexes become unowned, its units are removed leaving graves, and
\* the region is removed from the player.
C7_MaintenanceDeath ==
    [][result'.op = "start_turn" =>
          \A p \in PlayerIds :
              ~players[p].eliminated =>
                  \A i \in 1 .. Len(players[p].regions) :
                      LET r == players[p].regions[i]
                      IN  r.gold < (Cardinality(r.hexes) - 1) + SumUpkeep(board, r.hexes)
                              => DiesInFull(p, r)]_vars

\* a start of turn killed a region that had a castle and the gold for its
\* territory, but not for its units
C7_Witness ==
    /\ result.op = "start_turn"
    /\ \E k \in 1 .. Len(result.maintenance_deaths) :
          LET d == result.maintenance_deaths[k].death
          IN  /\ d.had >= d.region_size - 1
              /\ d.had < d.needed
              /\ \A h \in d.hexes : board[h].owner = NoOwner
              /\ \E h \in d.hexes : board[h].terrain = "grave"

\* every region lacking a castle when start_turn begins dies in full
CastlelessDie ==
    \A p \in PlayerIds :
        ~players[p].eliminated =>
            \A i \in 1 .. Len(players[p].regions) :
                ~(\E h \in players[p].regions[i].hexes :
                      board[h].unit # NoUnit /\ board[h].unit.type = "castle")
                    => DiesInFull(p, players[p].regions[i])

\* the regions of non-eliminated players after the step that satisfy keep(r)
\* hold a castle
SurvivorsHoldCastle(keep(_)) ==
    \A p \in PlayerIds :
        ~players'[p].eliminated =>
            \A i \in 1 .. Len(players'[p].regions) :
                keep(players'[p].regions[i]) =>
                    \E h \in players'[p].regions[i].hexes :
                        board'[h].unit # NoUnit /\ board'[h].unit.type = "castle"

AnyRegion(r) == TRUE
WithCapital(r) == r.has_capital

\* C8 as stated: immediately after start_turn returns, every region still
\* owned by a non-eliminated player contains at least one castle (a region
\* lacking a castle has all hexes unowned and its units replaced by graves).
C8_Original ==
    [][result'.op = "start_turn" => (CastlelessDie /\ SurvivorsHoldCastle(AnyRegion))]_vars

\* C8 as amended: immediately after start_turn returns, every region with a
\* capital (two or more hexes) still owned by a non-eliminated player
\* contains at least one castle, and every region that lacked a castle when
\* start_turn began has all hexes unowned and its units replaced by graves.
C8_CastleRequirement ==
    [][result'.op = "start_turn" => (CastlelessDie /\ SurvivorsHoldCastle(WithCapital))]_vars

\* a start of turn left a region with a capital and its castle alive, next to
\* a single hex of the same player whose castle died of isolation
C8_Witness ==
    /\ result.op = "start_turn"
    /\ \E p \in PlayerIds :
          /\ ~players[p].eliminated
          /\ \E i, j \in 1 .. Len(players[p].regions) :
                /\ players[p].regions[i].has_capital
                /\ has_castle(board, players[p].regions[i])
                /\ ~players[p].regions[j].has_capital
                /\ \E d \in result.isolated_deaths :
                      d.player = p /\ d.death.hex \in players[p].regions[j].hexes

\* C9: isolation death.  Immediately after start_turn returns, no region
\* without a capital of a non-eliminated player holds a unit: every unit
\* that stood in such a region was removed and its hex turned into a grave
\* (a tree when the growth of that start_turn has aged it), and the hex stays
\* owned by the player.
C9_IsolationDeath ==
    [][result'.op = "start_turn" =>
          \A p \in PlayerIds :
              ~players'[p].eliminated =>
                  \A i \in 1 .. Len(players'[p].regions) :
                      ~players'[p].regions[i].has_capital =>
                          \A h \in players'[p].regions[i].hexes :
                              /\ board'[h].unit = NoUnit
                              /\ board'[h].owner = p
                              /\ board[h].unit # NoUnit =>
                                    board'[h].terrain =
                                        IF tree_growth_enabled /\ p = current_player_idx
                                        THEN "tree" ELSE "grave"]_vars

\* a start of turn killed a unit on a single hex, which is still owned and
\* is now a grave
C9_Witness ==
    /\ result.op = "start_turn"
    /\ \E d \in result.isolated_deaths :
          /\ board[d.death.hex].owner = d.player
          /\ board[d.death.hex].unit = NoUnit
          /\ board[d.death.hex].terrain = "grave"

\* the game that from_dict builds from the dict of the current game
Reloaded ==
    GameState_from_dict(GameState_to_dict(board, players, current_player_idx, turn,
                                          tree_growth_enabled, tree_spread_threshold))

RegionGold(ps, p) ==
    {[hexes |-> ps[p].regions[i].hexes, gold |-> ps[p].regions[i].gold] :
        i \in 1 .. Len(ps[p].regions)}

\* C10: serialization round trip.  For every reachable game s,
\* from_dict(s.to_dict()) has the same terrain, owner and unit (type, owner,
\* has_moved) on every hex, the same region partition and the same gold in
\* every region for every player, the same eliminated flags, and the same
\* turn and current player index.
C10_RoundTrip ==
    \A loaded \in {Reloaded} :
        /\ loaded.keys = BoardKeys
        /\ \A h \in Coords :
              /\ loaded.board[h].terrain = board[h].terrain
              /\ loaded.board[h].owner = board[h].owner
              /\ loaded.board[h].unit = board[h].unit
        /\ \A p \in PlayerIds :
              /\ RegionGold(loaded.players, p) = RegionGold(players, p)
              /\ Len(loaded.players[p].regions) = Len(players[p].regions)
              /\ loaded.players[p].eliminated = players[p].eliminated
        /\ loaded.turn = turn
        /\ loaded.current_player_idx = current_player_idx

\* a game in its second turn, with a player eliminated, a unit that has
\* acted, and a region on the hex of negative q holding gold
C10_Witness ==
    /\ turn >= 2
    /\ \E p \in PlayerIds : players[p].eliminated
    /\ \E h \in Coords : board[h].unit # NoUnit /\ board[h].unit.has_moved
    /\ \E p \in PlayerIds :
          \E i \in 1 .. Len(players[p].regions) :
              /\ MinHex(players[p].regions[i].hexes)[1] < 0
              /\ players[p].regions[i].gold > 0

\* the game a snapshot restores is the game (b, ps, idx, t) in board, regions,
\* gold, eliminated flags, turn and current player
RestoresTo(snapshot, b, ps, idx, t) ==
    \A restored \in {from_snapshot(snapshot)} :
        /\ restored.board = b
        /\ \A p \in PlayerIds :
              /\ RegionGold(restored.players, p) = RegionGold(ps, p)
              /\ Len(restored.players[p].regions) = Len(ps[p].regions)
              /\ restored.players[p].eliminated = ps[p].eliminated
        /\ restored.turn = t
        /\ restored.current_player_idx = idx

\* C11: undo idempotence.  A snapshot restores to the game it was captured
\* from; no later call changes the content of a retained snapshot; after
\* undo_to_snapshot(N) the game is the one snapshot N restores to and the
\* action log has exactly the length recorded in snapshot N; and a second
\* undo_to_snapshot(N) with no call in between leaves game and log as the
\* first left them.
C11_UndoIdempotent ==
    [][/\ \* capture_snapshot holds the game it was given
          result'.op = "start_turn" =>
              RestoresTo(history'.snapshots[history'.snapshot_sequence],
                         board', players', current_player_idx', turn')
       /\ \* a retained snapshot is never mutated
          \A sid \in DOMAIN history.snapshots \cap DOMAIN history'.snapshots :
              history'.snapshots[sid] = history.snapshots[sid]
       /\ \* the undo returns the captured game and truncates the log
          (result'.op = "undo" /\ result'.success) =>
              /\ result'.snapshot_id \in DOMAIN history'.snapshots
              /\ RestoresTo(history.snapshots[result'.snapshot_id],
                            board', players', current_player_idx', turn')
              /\ Len(history'.actions) = history.snapshots[result'.snapshot_id].action_count
       /\ \* the second undo in a row changes nothing
          (result'.op = "undo" /\ result'.success /\ result'.repeated) =>
              /\ board' = board
              /\ players' = players
              /\ current_player_idx' = current_player_idx
              /\ turn' = turn
              /\ history'.actions = history.actions]_vars

\* a second undo to the same snapshot right after a first one, the log
\* holding what snapshot N recorded
C11_Witness ==
    /\ result.op = "undo"
    /\ result.success
    /\ result.repeated
    /\ Len(history.actions) = history.snapshots[result.snapshot_id].action_count
    /\ Len(history.actions) >= 1

\* snapshot ids are 1..n with n the snapshot counter, and every action's
\* sequence number is its position in the log, the next number being its length
HistoryShape(h) ==
    /\ DOMAIN h.snapshots = 1 .. h.snapshot_sequence
    /\ \A i \in 1 .. Len(h.actions) : h.actions[i].sequence = i - 1
    /\ h.action_sequence = Len(h.actions)

\* C12: linear history.  In every reachable history state the snapshot ids
\* are exactly 1..n and each action's sequence number is its position in the
\* log; after undo_to_snapshot(k) the retained snapshots are exactly those
\* with id <= k, unchanged, and the retained actions exactly the first
\* action_count(k) log entries; a snapshot captured next gets the id after
\* the greatest retained one and an action recorded next the sequence number
\* equal to the length of the retained log.
C12_LinearHistory ==
    /\ []HistoryShape(history)
    /\ [][/\ (result'.op = "undo" /\ result'.success) =>
                 \A k \in {result'.snapshot_id} :
                    /\ DOMAIN history'.snapshots = {sid \in DOMAIN history.snapshots : sid <= k}
                    /\ \A sid \in DOMAIN history'.snapshots :
                          history'.snapshots[sid] = history.snapshots[sid]
                    /\ Len(history'.actions) = history.snapshots[k].action_count
                    /\ \A i \in 1 .. Len(history'.actions) :
                          history'.actions[i] = history.actions[i]
          /\ result'.op = "start_turn" =>
                 /\ DOMAIN history'.snapshots =
                        DOMAIN history.snapshots \cup {history.snapshot_sequence + 1}
                 /\ history'.snapshot_sequence = history.snapshot_sequence + 1
          /\ Len(history'.actions) > Len(history.actions) =>
                 /\ Len(history'.actions) = Len(history.actions) + 1
                 /\ \A i \in 1 .. Len(history.actions) :
                       history'.actions[i] = history.actions[i]
                 /\ history'.actions[Len(history'.actions)].sequence = Len(history.actions)
         ]_vars

\* an undo that discarded a later snapshot and later actions
C12_Witness ==
    /\ result.op = "undo"
    /\ result.success
    /\ result.discarded_snapshots >= 1
    /\ result.discarded_actions >= 2
    /\ Len(history.actions) >= 1

\* C13: snapshot completeness.  The state restored from a snapshot has the
\* same tree-growth configuration (tree_growth_enabled and
\* tree_spread_threshold) as the state that was captured: stated of the
\* snapshot run_current_turn has just taken, and of the game an undo returns
\* (no operation of a game changes its tree configuration).
C13_SnapshotCompleteness ==
    [][/\ result'.op = "start_turn" =>
              \A restored \in {from_snapshot(history'.snapshots[history'.snapshot_sequence])} :
                  /\ restored.tree_growth_enabled = tree_growth_enabled'
                  /\ restored.tree_spread_threshold = tree_spread_threshold'
       /\ (result'.op = "undo" /\ result'.success) =>
              /\ tree_growth_enabled' = tree_growth_enabled
              /\ tree_spread_threshold' = tree_spread_threshold]_vars

\* the players not eliminated
ActivePlayers == {p \in PlayerIds : ~players[p].eliminated}

\* what the victory check is to answer in the current state
ExpectedWinner ==
    IF Cardinality(ActivePlayers) = 1 THEN CHOOSE p \in ActivePlayers : TRUE
    ELSE IF Cardinality(ActivePlayers) = 0 THEN -1
    ELSE NoWinner

\* C14: victory check.  check_victory returns the id of the single
\* non-eliminated player when exactly one player is not eliminated, the draw
\* signal -1 when none is, and no winner when two or more are; and the
\* result of end_turn carries a winner exactly when check_victory, asked in
\* the state end_turn leaves, gives one, and then that one.
C14_VictoryCheck ==
    /\ check_victory(players) = ExpectedWinner
    /\ NoWinner \notin PlayerIds \cup {-1}
    /\ result.op = "end_turn" => result.winner = ExpectedWinner

\* an end_turn that reports the single player left as the winner
C14_Witness ==
    /\ result.op = "end_turn"
    /\ result.winner \in PlayerIds
    /\ Cardinality(ActivePlayers) = 1

\* an end_turn that reports a draw
C14_DrawReached == result.op = "end_turn" /\ result.winner = -1

\* the number of steps from index i forward to index j in cyclic order, 1..NumPlayers
CyclicDistance(i, j) == IF j > i THEN j - i ELSE j - i + NumPlayers

\* C15: player rotation.  After end_turn, if at least two players are
\* non-eliminated, current_player_idx is the first non-eliminated index
\* strictly after the previous index in cyclic order, the new current player
\* is not eliminated, and the turn counter is incremented by exactly 1 if the
\* scan stepped onto index 0 and is unchanged otherwise; if at most one
\* player is non-eliminated, index and turn are unchanged.  (Eliminated is
\* the flag as end_turn has just set it.)
C15_PlayerRotation ==
    [][result'.op = "end_turn" =>
          \A active \in {{p \in PlayerIds : ~players'[p].eliminated}} :
              IF Cardinality(active) >= 2
              THEN /\ current_player_idx' \in active
                   /\ current_player_idx' # current_player_idx
                   /\ \A p \in active \ {current_player_idx} :
                         CyclicDistance(current_player_idx, current_player_idx')
                             <= CyclicDistance(current_player_idx, p)
                   /\ turn' = IF current_player_idx' < current_player_idx
                              THEN turn + 1 ELSE turn
              ELSE /\ current_player_idx' = current_player_idx
                   /\ turn' = turn]_vars

\* an end_turn has handed the turn to player 0 in turn 2 or later, player 2
\* being eliminated and players 0 and 1 not: the scan passed over index 2
\* or left it, and wrapped
C15_Witness ==
    /\ result.op = "end_turn"
    /\ current_player_idx = 0
    /\ turn >= 2
    /\ players[2].eliminated
    /\ ~players[0].eliminated
    /\ ~players[1].eliminated

\* C16: no spontaneous advance.  start_turn, move_unit and buy_unit,
\* successful or rejected, leave current_player_idx and the turn counter
\* unchanged; a step that changes either is an end_turn or an undo.
C16_NoSpontaneousAdvance ==
    [][/\ result'.op \in {"start_turn", "move", "buy"} =>
              /\ current_player_idx' = current_player_idx
              /\ turn' = turn
       /\ (current_player_idx' # current_player_idx \/ turn' # turn) =>
              result'.op \in {"end_turn", "undo"}]_vars

\* a start_turn at which the current player lost every region and the turn
\* stayed with that player
C16_Witness ==
    /\ result.op = "start_turn"
    /\ players[current_player_idx].regions = <<>>
    /\ \E p \in PlayerIds \ {current_player_idx} : players[p].regions # <<>>
    /\ result.castle_deaths # <<>> \/ result.maintenance_deaths # <<>>

\* the scenario of the purchase onto a defended hex: x and y adjacent hexes
\* of player p, each holding a peasant, in a region with at least 20 gold; z a
\* neighbour of y owned by another player and holding a spearman; no other
\* defender next to z (no unit and no capital of z's owner on z's neighbours,
\* z no capital itself)
PurchaseScenario(p, x, y, z) ==
    /\ y \in NeighborSet(x)
    /\ z \in NeighborSet(y)
    /\ board[x].owner = p /\ board[x].unit # NoUnit /\ board[x].unit.type = "peasant"
    /\ board[y].owner = p /\ board[y].unit # NoUnit /\ board[y].unit.type = "peasant"
    /\ region_index(players[p].regions, y) # 0
    /\ get_region_for_hex(players[p].regions, y).gold >= 20
    /\ board[z].owner \in PlayerIds \ {p}
    /\ board[z].terrain # "sea"
    /\ board[z].unit # NoUnit /\ board[z].unit.type = "spearman"
    /\ ~IsCapitalHex(z)
    /\ \A n \in NeighborSet(z) :
          board[n].owner = board[z].owner => (board[n].unit = NoUnit /\ ~IsCapitalHex(n))

\* C17 as stated: in the scenario, player 0 (the current player) buying a
\* spearman placed on the defended hex succeeds, removes the defending
\* spearman, transfers the hex and deducts 20 gold.
C17_Original ==
    \A x \in Coords, y \in Coords, z \in Coords :
        PurchaseScenario(current_player_idx, x, y, z) =>
            \A out \in {execute_buy(board, players, current_player_idx, "spearman", z)} :
                /\ out.res.success
                /\ out.board[z].owner = current_player_idx
                /\ out.board[z].unit = Unit("spearman", current_player_idx, TRUE)
                /\ SumGold(out.players[current_player_idx].regions)
                       = SumGold(players[current_player_idx].regions) - 20

\* C17: attack-by-purchase scenario.  In the scenario, the current player
\* buying a spearman placed on the hex defended by the spearman is rejected,
\* the defense of 2 not being exceeded by the strength of 2, and board and
\* players (defender, owner of the hex, gold) stay as they were.
C17_AttackByPurchase ==
    \A x \in Coords, y \in Coords, z \in Coords :
        PurchaseScenario(current_player_idx, x, y, z) =>
            \A out \in {execute_buy(board, players, current_player_idx, "spearman", z)} :
                /\ ~out.res.success
                /\ out.res.message = MsgArgs("Defense too strong", 2, 2)
                /\ out.board = board
                /\ out.players = players

\* the purchase of the scenario has just been rejected
C17_Witness ==
    /\ result.op = "buy"
    /\ ~result.success
    /\ result.message = MsgArgs("Defense too strong", 2, 2)
    /\ \E x \in Coords, y \in Coords, z \in Coords :
          PurchaseScenario(current_player_idx, x, y, z)

\* a region of player p with gold for unit type u lies beside hex z
RegionBeside(p, u, z) ==
    \E n \in NeighborSet(z) :
        /\ board[n].owner = p
        /\ region_index(players[p].regions, n) # 0
        /\ get_region_for_hex(players[p].regions, n).gold >= cost(u)

\* C18: attack-by-purchase on unowned land.  A purchase by the current
\* player targeting a non-sea hex that has no owner and is adjacent to a hex
\* of one of the player's regions with gold >= the unit's cost is accepted
\* and, executed, gives the hex to the purchaser and places the unit.
C18_UnownedPurchase ==
    \A u \in UnitTypes, z \in Coords :
        (/\ board[z].terrain # "sea"
         /\ board[z].owner = NoOwner
         /\ RegionBeside(current_player_idx, u, z)) =>
            \A out \in {execute_buy(board, players, current_player_idx, u, z)} :
                /\ out.res.success
                /\ out.board[z].owner = current_player_idx
                /\ out.board[z].unit = Unit(u, current_player_idx, TRUE)

\* the neighbours of z in the order of the directions (1,0), (1,-1), (0,-1),
\* (-1,0), (-1,1), (0,1), those off the board left out
NeighborsInOrder(z) ==
    SelectSeq([i \in 1 .. 6 |->
                  <<z[1] + <<1, 1, 0, 0 - 1, 0 - 1, 0>>[i],
                    z[2] + <<0, 0 - 1, 0 - 1, 0, 1, 1>>[i]>>],
              LAMBDA h : h \in Coords)

\* the positions in ns of the hexes of player p whose region holds the price
PayingCandidates(p, ns, price) ==
    {i \in 1 .. Len(ns) :
        /\ board[ns[i]].owner = p
        /\ \E k \in 1 .. Len(players[p].regions) :
              /\ ns[i] \in players[p].regions[k].hexes
              /\ players[p].regions[k].gold >= price}

\* a purchase of u onto z by p that passes every test of can_buy before the payment
LegalAttackPurchase(p, u, z) ==
    /\ board[z].owner \in PlayerIds \ {p}
    /\ board[z].terrain # "sea"
    /\ UNIT_STATS[u].strength > get_defense_strength(board, players, z)

\* C19: attack-by-purchase payment.  For a purchase onto an opponent-owned
\* hex that the defense allows, the cost is deducted from exactly one region:
\* that of the first neighbour of the target, in the fixed direction order,
\* that the purchaser owns and whose region has gold >= cost (the player's
\* gold falls by the cost, and can_buy names that region); the purchase is
\* rejected, nothing changing, if no adjacent region of the purchaser has
\* enough gold, even if a non-adjacent one does.
C19_PurchasePayment ==
    \A u \in UnitTypes, z \in Coords :
        LegalAttackPurchase(current_player_idx, u, z) =>
            \A ns \in {NeighborsInOrder(z)} :
            \A cand \in {PayingCandidates(current_player_idx, ns, cost(u))} :
            \A can \in {can_buy(board, players, current_player_idx, u, z)} :
            \A out \in {execute_buy(board, players, current_player_idx, u, z)} :
                IF cand = {}
                THEN /\ ~can.ok
                     /\ ~out.res.success
                     /\ out.res.message = Msg("No adjacent region with enough gold")
                     /\ out.board = board
                     /\ out.players = players
                ELSE \A first \in {CHOOSE i \in cand : \A j \in cand : i <= j} :
                        /\ can.ok
                        /\ ns[first] \in
                               players[current_player_idx].regions[can.paying_region].hexes
                        /\ out.res.success
                        /\ SumGold(out.players[current_player_idx].regions)
                               = SumGold(players[current_player_idx].regions) - cost(u)
                        /\ \A k \in 1 .. Len(players[current_player_idx].regions) :
                              LET r == players[current_player_idx].regions[k]
                              IN  (r.hexes \cap NeighborSet(z) = {}) =>
                                      \E m \in 1 .. Len(out.players[current_player_idx].regions) :
                                          out.players[current_player_idx].regions[m] = r

\* a purchase has just been rejected for want of gold beside the target
\* while a region of the purchaser away from the target holds the price
C19_Witness ==
    /\ result.op = "buy"
    /\ ~result.success
    /\ result.message = Msg("No adjacent region with enough gold")
    /\ \E u \in UnitTypes, z \in Coords :
          /\ LegalAttackPurchase(current_player_idx, u, z)
          /\ PayingCandidates(current_player_idx, NeighborsInOrder(z), cost(u)) = {}
          /\ \E k \in 1 .. Len(players[current_player_idx].regions) :
                players[current_player_idx].regions[k].gold >= cost(u)

\* a state in which the first of the purchaser's hexes beside the target is
\* in a region without the price and a later one in a region with it
C19_LaterRegionPays ==
    \E u \in UnitTypes, z \in Coords :
        /\ LegalAttackPurchase(current_player_idx, u, z)
        /\ \E i \in PayingCandidates(current_player_idx, NeighborsInOrder(z), cost(u)) :
              \E j \in 1 .. (i - 1) :
                  board[NeighborsInOrder(z)[j]].owner = current_player_idx

\* a move from hex from to hex to by the unit's owner p is a clearing, an
\* attack or a claim: the target is not p's, or is a tree or grave of p's
UsesActionBudget(p, to) ==
    \/ board[to].owner # p
    \/ board[to].terrain \in {"tree", "grave"}

\* no unit that has acted is free to act after the step, unless the step is
\* a start_turn and the unit belongs to the player whose turn starts
FlagKept ==
    \A h \in Coords :
        (board'[h].unit # NoUnit /\ ~board'[h].unit.has_moved) =>
            \/ board[h].unit = board'[h].unit
            \/ \E g \in Coords : board[g].unit = board'[h].unit /\ board'[g].unit = NoUnit
            \/ /\ result'.op = "start_turn"
               /\ board'[h].unit.owner = current_player_idx

\* C20 as stated: right after a successful buy_unit every move whose source
\* is the purchased unit's hex is rejected.
C20_Original ==
    [][(result'.op = "buy" /\ result'.success) =>
          \A z \in Coords :
              board'[z].unit # board[z].unit =>
                  \A to \in Coords :
                      ~execute_move(board', players', current_player_idx', z, to).res.success]_vars

\* C20: a purchased unit cannot attack, claim or clear in the turn it was
\* bought.  A successful buy_unit places the unit marked as having acted;
\* while a unit is so marked every move of it onto a hex its owner does not
\* own, or onto a tree or grave of its owner, is rejected; and the mark is
\* removed only by a start_turn of its owner.  (Moves onto the owner's own
\* land, merges included, are not rejected for the mark.)
C20_PurchasedUnitActed ==
    /\ [](\A z \in Coords :
             (board[z].unit # NoUnit /\ board[z].unit.has_moved
                 /\ board[z].unit.owner = current_player_idx) =>
                 \A to \in Coords :
                     UsesActionBudget(current_player_idx, to) =>
                         ~execute_move(board, players, current_player_idx, z, to).res.success)
    /\ [][/\ (result'.op = "buy" /\ result'.success) =>
                 /\ Cardinality({z \in Coords : board'[z].unit # board[z].unit}) = 1
                 /\ \A z \in Coords :
                       board'[z].unit # board[z].unit =>
                           /\ board'[z].unit # NoUnit
                           /\ board'[z].unit.has_moved
                           /\ board'[z].unit.owner = current_player_idx
          /\ FlagKept]_vars

\* a unit has just been bought; an attack or claim by it is rejected as the
\* unit has acted, and a move of it onto its owner's land is accepted
C20_Witness ==
    /\ result.op = "buy"
    /\ result.success
    /\ \E z \in Coords, to \in Coords, inner \in Coords :
          /\ board[z].unit # NoUnit
          /\ board[z].unit.has_moved
          /\ board[z].unit.owner = current_player_idx
          /\ board[to].owner # current_player_idx
          /\ execute_move(board, players, current_player_idx, z, to).res.message
                 = Msg("Unit already attacked this turn")
          /\ board[inner].owner = current_player_idx
          /\ execute_move(board, players, current_player_idx, z, inner).res.success

\* C21: not-your-turn rejection.  A submit_human_action made while the
\* orchestrator is not waiting for a human (before run_current_turn, after
\* the human's end_turn, after an undo) returns the error and changes neither
\* the game state nor the history: from a state where waiting_for_human is
\* unset every call other than run_current_turn and undo_to_snapshot is
\* answered with the error and leaves board, players, current player, turn,
\* tree configuration, history and waiting_for_human as they were.
C21_NotWaitingRejected ==
    [][(waiting_for_human = NoPlayer /\ result'.op \notin {"start_turn", "undo"}) =>
           /\ result'.op = "submit"
           /\ result'.status = "error"
           /\ UNCHANGED <<board, players, current_player_idx, turn, tree_growth_enabled,
                          tree_spread_threshold, history, waiting_for_human>>
      ]_vars

\* a submission rejected after the human's end_turn was logged
C21_Witness ==
    /\ result.op = "submit"
    /\ result.status = "error"
    /\ waiting_for_human = NoPlayer
    /\ \E i \in 1 .. Len(history.actions) : history.actions[i].action_type = "end_turn"

\* C22: awaiting-input persistence.  Whenever waiting_for_human is set it is
\* the id of the current player; a move or buy submission, accepted or
\* rejected, leaves it set with the same value; and it goes from set to unset
\* only in a step that is a submitted end_turn or an undo.
C22_AwaitingInput ==
    /\ [](waiting_for_human # NoPlayer => waiting_for_human = current_player_idx)
    /\ [][waiting_for_human # NoPlayer =>
             /\ result'.op \in {"move", "buy"} => waiting_for_human' = waiting_for_human
             /\ waiting_for_human' = NoPlayer => result'.op \in {"end_turn", "undo"}
             /\ result'.op = "end_turn" => waiting_for_human' = NoPlayer
         ]_vars

\* still waiting for the same player after an accepted and a rejected
\* submission, the last two entries of the log
C22_Witness ==
    /\ waiting_for_human # NoPlayer
    /\ Len(history.actions) >= 3
    /\ \E n \in {Len(history.actions)} :
          /\ history.actions[n].action_type \in {"move", "buy"}
          /\ history.actions[n - 1].action_type \in {"move", "buy"}
          /\ history.actions[n].result.success # history.actions[n - 1].result.success
          /\ history.actions[n].player_id = waiting_for_human
          /\ history.actions[n - 1].player_id = waiting_for_human

\* the elements of a sequence
Elements(xs) == {xs[i] : i \in 1 .. Len(xs)}

\* the (from, to) pairs of board hexes can_move accepts for a player
AcceptedMoves(p) ==
    {m \in Coords \X Coords : can_move(board, players, p, m[1], m[2]).ok}

\* C23: legal-move enumeration.  For every player, get_valid_moves returns
\* exactly the (from, to) pairs for which can_move holds: every move that
\* execute_move would accept, internal moves and merges of units that have
\* already acted included, and no move that would be rejected.
C23_MoveEnumeration ==
    \A p \in PlayerIds :
        Elements(get_valid_moves(board, players, p)) = AcceptedMoves(p)

\* C24: legal-purchase enumeration.  For every player, unit type and hex of
\* the board, get_valid_purchases has an entry for (type, hex) if and only
\* if can_buy accepts that purchase, and it has at most one entry for each
\* (type, hex) pair, also for a hex beside several hexes or regions of the
\* player.
C24_PurchaseEnumeration ==
    \A p \in PlayerIds :
        \A vp \in {get_valid_purchases(board, players, p)} :
            /\ \A unit_type \in UnitTypes, target \in Coords :
                  (\E i \in 1 .. Len(vp) : /\ vp[i].unit_type = unit_type
                                           /\ vp[i].hex = target)
                      <=> can_buy(board, players, p, unit_type, target).ok
            /\ \A i, j \in 1 .. Len(vp) :
                  (vp[i].unit_type = vp[j].unit_type /\ vp[i].hex = vp[j].hex) => i = j

\* after a step of the game, a hex of another player lies beside two regions
\* of the current player that both hold the price of a peasant, and the
\* enumeration lists the attack purchase
C24_Witness ==
    /\ steps >= 1
    /\ \E target \in Coords :
          /\ board[target].owner \notin {NoOwner, current_player_idx}
          /\ \E i, j \in 1 .. Len(players[current_player_idx].regions) :
                /\ i # j
                /\ \A k \in {i, j} :
                      /\ players[current_player_idx].regions[k].gold >= cost("peasant")
                      /\ players[current_player_idx].regions[k].hexes
                             \cap NeighborSet(target) # {}
          /\ \E vp \in {get_valid_purchases(board, players, current_player_idx)} :
                \E n \in 1 .. Len(vp) :
                    /\ vp[n].unit_type = "peasant"
                    /\ vp[n].hex = target
                    /\ vp[n].is_attack

\* the tiers of the merge: peasant -> spearman -> knight -> baron
NextTier == [peasant |-> "spearman", spearman |-> "knight", knight |-> "baron"]

\* a mobile unit of player p on from_hex beside an occupied land hex of p's
\* territory
OntoOwnUnit(p, from_hex, to_hex) ==
    /\ board[from_hex].unit # NoUnit
    /\ board[from_hex].unit.owner = p
    /\ board[from_hex].unit.type # "castle"
    /\ to_hex \in NeighborSet(from_hex)
    /\ board[to_hex].owner = p
    /\ board[to_hex].terrain = "land"
    /\ board[to_hex].unit # NoUnit

\* C25: merge.  A move of a mobile unit of the current player onto an
\* adjacent land hex of the own territory that holds a unit of the same type
\* and owner, the type being peasant, spearman or knight, succeeds whatever
\* the gold, the upkeep and the has_moved flags are, leaves the source hex
\* empty and the target hex with one unit of the next tier with has_moved
\* set, and changes nothing else; onto a castle, a baron or a unit of another
\* type the move is rejected and nothing changes.
C25_Merge ==
    \A from_hex \in Coords, to_hex \in Coords :
        OntoOwnUnit(current_player_idx, from_hex, to_hex) =>
            \A m \in {execute_move(board, players, current_player_idx, from_hex, to_hex)} :
                IF /\ board[from_hex].unit.type = board[to_hex].unit.type
                   /\ board[from_hex].unit.owner = board[to_hex].unit.owner
                   /\ board[from_hex].unit.type \in DOMAIN NextTier
                THEN /\ m.res.success
                     /\ m.players = players
                     /\ m.board =
                            [board EXCEPT
                                ![from_hex].unit = NoUnit,
                                ![to_hex].unit =
                                    [type |-> NextTier[board[from_hex].unit.type],
                                     owner |-> current_player_idx,
                                     has_moved |-> TRUE]]
                ELSE /\ ~m.res.success
                     /\ m.board = board
                     /\ m.players = players

\* a knight was merged into a baron (the knight on the target hex itself the
\* result of a merge, so with has_moved set) in a region whose gold is below
\* the upkeep of its units, and the new baron stands beside another baron
C25_Witness ==
    /\ result.op = "move"
    /\ result.success
    /\ result.merged_into = "baron"
    /\ \E h \in Coords :
          /\ board[h].unit = Unit("baron", current_player_idx, TRUE)
          /\ \E r \in {get_region_for_hex(players[current_player_idx].regions, h)} :
                r.gold < get_upkeep(board, r)
          /\ \E n \in NeighborSet(h) :
                /\ OntoOwnUnit(current_player_idx, n, h)
                /\ board[n].unit.type = "baron"

\* C26: action budget.  A move onto a hex the mover does not own (attack or
\* claim) or onto a tree or grave of the own territory is rejected when the
\* unit has has_moved set and, when it succeeds, leaves the unit on the
\* target with has_moved set; a move onto empty own land succeeds whatever
\* the flag is and carries the unit over with its flag unchanged; no move
\* touches a unit on a third hex; a flag that is set is cleared only by a
\* start_turn of the unit's owner, which leaves every unit of that player
\* with the flag clear.  Hence a unit makes at most one attack, claim or
\* clearing between two start_turns of its owner.
C26_ActionBudget ==
    /\ [](\A from_hex \in Coords, to_hex \in Coords :
             (/\ board[from_hex].unit # NoUnit
              /\ board[from_hex].unit.owner = current_player_idx) =>
                 \A m \in {execute_move(board, players, current_player_idx,
                                        from_hex, to_hex)} :
                     \A u \in {board[from_hex].unit} :
                         /\ (UsesActionBudget(current_player_idx, to_hex) /\ u.has_moved) =>
                                ~m.res.success /\ m.board = board /\ m.players = players
                         /\ (UsesActionBudget(current_player_idx, to_hex) /\ m.res.success) =>
                                /\ m.board[to_hex].unit = [u EXCEPT !.has_moved = TRUE]
                                /\ m.board[from_hex].unit = NoUnit
                         /\ (/\ ~UsesActionBudget(current_player_idx, to_hex)
                             /\ board[to_hex].unit = NoUnit
                             /\ to_hex \in NeighborSet(from_hex)
                             /\ u.type # "castle") =>
                                /\ m.res.success
                                /\ m.board[to_hex].unit = u
                                /\ m.board[from_hex].unit = NoUnit
                         /\ \A h \in Coords \ {from_hex, to_hex} :
                                m.board[h].unit = board[h].unit)
    /\ [][/\ \A h \in Coords :
                (/\ board[h].unit # NoUnit
                 /\ board[h].unit.has_moved
                 /\ board'[h].unit = [board[h].unit EXCEPT !.has_moved = FALSE]) =>
                    /\ result'.op = "start_turn"
                    /\ board[h].unit.owner = current_player_idx
          /\ result'.op = "start_turn" =>
                \A h \in Coords :
                    (board'[h].unit # NoUnit /\ board'[h].unit.owner = current_player_idx)
                        => ~board'[h].unit.has_moved
         ]_vars

\* a unit has just attacked or claimed a hex; a second attack or claim by it
\* is rejected as the unit has acted, and a move of it onto empty own land is
\* accepted
C26_Witness ==
    /\ result.op = "move"
    /\ result.success
    /\ result.conquered
    /\ \E z \in Coords, to \in Coords, inner \in Coords :
          /\ board[z].unit # NoUnit
          /\ board[z].unit.has_moved
          /\ board[z].unit.owner = current_player_idx
          /\ board[to].owner # current_player_idx
          /\ execute_move(board, players, current_player_idx, z, to).res.message
                 = Msg("Unit already attacked this turn")
          /\ board[inner].owner = current_player_idx
          /\ board[inner].unit = NoUnit
          /\ board[inner].terrain = "land"
          /\ execute_move(board, players, current_player_idx, z, inner).res.success

\* C27: elimination check.  Immediately after end_turn, for every player the
\* eliminated flag is true if and only if the player owns no hex of the
\* board.
C27_EliminationCheck ==
    [][result'.op = "end_turn" =>
          \A p \in PlayerIds :
              players'[p].eliminated <=> (\A h \in Coords : board'[h].owner # p)]_vars

\* on the board whose hex (0,0) is sea, player 1, whose only hex (1,1) was
\* taken by a purchase of player 0 in this turn, is eliminated by the
\* end_turn, and player 0 is not
C27_Witness ==
    /\ result.op = "end_turn"
    /\ board[<<0, 0>>].terrain = "sea"
    /\ board[<<1, 1>>] = Hex("land", 0, Unit("peasant", 0, TRUE))
    /\ players[1].eliminated
    /\ ~players[0].eliminated
    /\ \A h \in Coords : board[h].owner # 1

\* C28: undo is atomic with respect to an in-flight turn.  When
\* undo_to_snapshot(N) was called while run_current_turn of an AI player was
\* suspended at an await, then at the return of that run_current_turn the
\* orchestrator's game state is the state snapshot N restores, with no
\* effect of the interrupted turn, and the action log holds no action that
\* was executed against the discarded state: it is the log the undo left,
\* of the length recorded in snapshot N.
C28_UndoAtomic ==
    [][(in_flight.status = "suspended" /\ in_flight.detached
            /\ in_flight'.status = "idle") =>
           \A snapshot \in {history'.snapshots[in_flight.undone_to]} :
               /\ RestoresTo(snapshot, board', players', current_player_idx', turn')
               /\ Len(history'.actions) = snapshot.action_count
      ]_vars

\* the game state after an interrupted turn: checked on its own
AiStateRestored ==
    [][(in_flight.status = "suspended" /\ in_flight.detached
            /\ in_flight'.status = "idle") =>
           RestoresTo(history'.snapshots[in_flight.undone_to],
                      board', players', current_player_idx', turn')
      ]_vars

\* C29: the insufficient-maintenance fallback of pay_upkeep is unreachable in
\* play.  In a game where every end_turn follows a start_turn of the same
\* player, with moves and purchases in between, no region of the player
\* ending the turn has less gold than its territory maintenance when
\* end_turn calls pay_upkeep.
C29_FallbackUnreachable ==
    [][result'.op = "end_turn" =>
          \A i \in 1 .. Len(players[current_player_idx].regions) :
              players[current_player_idx].regions[i].gold
                  >= get_territory_maintenance(players[current_player_idx].regions[i])
      ]_vars

RECURSIVE GoldOfRegions(_, _)
\* the gold of the regions at the positions of I, each position counted once
GoldOfRegions(regions, I) ==
    IF I = {} THEN 0
    ELSE LET i == CHOOSE j \in I : TRUE
         IN  regions[i].gold + GoldOfRegions(regions, I \ {i})

\* C30: gold on region merge.  After a successful move or purchase that takes a
\* hex z for the current player, every region the player then has holds the
\* sum of the gold of the previous regions that share a hex with it, each
\* counted once (for a purchase, less the price that the region beside z has
\* paid), capped at 10 for a region without capital; so the region that
\* contains z collects the gold of all the regions z has joined, and a region
\* that shares hexes only with its former self keeps its gold.
C30_GoldOnMerge ==
    [][\A p \in {current_player_idx} : \A z \in Coords :
          (/\ result'.op \in {"move", "buy"}
           /\ result'.success
           /\ board[z].owner # p
           /\ board'[z].owner = p) =>
              \A price \in {IF result'.op = "buy" THEN cost(result'.message.args[1]) ELSE 0} :
              \A i \in 1 .. Len(players'[p].regions) :
                  \A new \in {players'[p].regions[i]} :
                  \A shared \in {{j \in 1 .. Len(players[p].regions) :
                                     players[p].regions[j].hexes \cap new.hexes # {}}} :
                      new.gold = Min(GoldOfRegions(players[p].regions, shared)
                                         - (IF z \in new.hexes THEN price ELSE 0),
                                     IF new.has_capital THEN 999999 ELSE 10) ]_vars

\* a move has taken a hex that holds two parts of the mover's land together:
\* without it the region falls apart, and the region has the gold of both parts
C30_Witness ==
    /\ result.op = "move" /\ result.success /\ result.conquered
    /\ \E i \in 1 .. Len(players[current_player_idx].regions) :
          \E r \in {players[current_player_idx].regions[i]} :
              \E z \in r.hexes :
                  /\ board[z].unit # NoUnit
                  /\ board[z].unit.has_moved
                  /\ ~Connected(r.hexes \ {z})
                  /\ r.gold = 20

\* a purchase has taken such a hex: the region has the gold of both parts less
\* the price
C30_PurchaseJoins ==
    /\ result.op = "buy" /\ result.success /\ result.message.args[3]
    /\ \E i \in 1 .. Len(players[current_player_idx].regions) :
          \E r \in {players[current_player_idx].regions[i]} :
              \E z \in r.hexes :
                  /\ board[z].unit # NoUnit
                  /\ board[z].unit.has_moved
                  /\ ~Connected(r.hexes \ {z})
                  /\ r.gold > 0

\* the board and the regions start_turn hands to tree growth: the state after
\* the death checks for all players
BeforeGrowth ==
    DeathChecks(board, players, 0,
                [castle_deaths |-> <<>>, maintenance_deaths |-> <<>>, isolated_deaths |-> {}])

\* the capital hexes of the regions of player p
CapitalHexes(ps, p) ==
    {MinHex(ps[p].regions[i].hexes) :
        i \in {j \in 1 .. Len(ps[p].regions) : ps[p].regions[j].has_capital}}

C31_GraveAged ==
    /\ result.op = "start_turn"
    /\ tree_growth_enabled
    /\ \E h \in Coords : board[h].owner = current_player_idx /\ board[h].terrain = "tree"

\* the hex sets of a list of regions
HexSets(regions) == {regions[i].hexes : i \in 1 .. Len(regions)}

\* the regions of a list that pass the death checks of start_turn on board b:
\* a castle, and gold for territory maintenance and unit upkeep
Survivors(b, regions) ==
    {regions[i] : i \in {j \in 1 .. Len(regions) :
        /\ \E h \in regions[j].hexes : b[h].unit # NoUnit /\ b[h].unit.type = "castle"
        /\ regions[j].gold >=
               (Cardinality(regions[j].hexes) - 1)
                   + SumUpkeep(b, regions[j].hexes)}}

\* C32: start-of-turn ordering and scope.  In one start_turn the regions of
\* every player that are kept are those that pass the death checks with the
\* gold they had before any income; then each kept region of the current
\* player holds min(gold + income, cap), the income being its hexes that are
\* neither tree nor grave once the trees have grown (at least 1 with a
\* capital), and every unit of the current player has has_moved = FALSE;
\* the kept regions of the other players have their gold unchanged and the
\* surviving units of the other players are unchanged.
C32_StartTurnScope ==
    [][result'.op = "start_turn" =>
          \A p \in {current_player_idx} :
              /\ \A q \in PlayerIds :
                    ~players[q].eliminated =>
                        /\ Len(players'[q].regions) = Cardinality(HexSets(players'[q].regions))
                        /\ HexSets(players'[q].regions)
                               = {r.hexes : r \in Survivors(board, players[q].regions)}
              /\ \A i \in 1 .. Len(players'[p].regions) :
                    \A new \in {players'[p].regions[i]} :
                        \E old \in Survivors(board, players[p].regions) :
                            /\ old.hexes = new.hexes
                            /\ \A base \in {Cardinality({h \in new.hexes :
                                               board'[h].terrain \notin {"tree", "grave"}})} :
                                   new.gold =
                                       Min(old.gold + (IF new.has_capital THEN Max(1, base)
                                                       ELSE base),
                                           IF new.has_capital THEN 999999 ELSE 10)
              /\ \A h \in Coords :
                    (board'[h].unit # NoUnit /\ board'[h].unit.owner = p)
                        => ~board'[h].unit.has_moved
              /\ \A q \in PlayerIds \ {p} :
                    \A i \in 1 .. Len(players'[q].regions) :
                        \E j \in 1 .. Len(players[q].regions) :
                            players[q].regions[j] = players'[q].regions[i]
              /\ \A h \in Coords :
                    (board'[h].unit # NoUnit /\ board'[h].unit.owner # p)
                        => board'[h].unit = board[h].unit ]_vars

\* a start_turn after which the current player has a mobile unit, a region
\* of the current player holds more than 10 gold after income, and a unit of
\* another player still carries has_moved = TRUE
C32_Witness ==
    /\ result.op = "start_turn"
    /\ \E h \in Coords :
          /\ board[h].unit # NoUnit
          /\ board[h].unit.owner = current_player_idx
          /\ is_mobile(board[h].unit)
    /\ \E h \in Coords :
          /\ board[h].unit # NoUnit
          /\ board[h].unit.owner # current_player_idx
          /\ board[h].unit.has_moved
    /\ \E i \in 1 .. Len(players[current_player_idx].regions) :
          players[current_player_idx].regions[i].gold > 10

\* C33: gold is never negative.  In every reachable state every region of
\* every player holds gold >= 0.
C33_GoldNonNegative ==
    \A p \in PlayerIds :
        \A i \in 1 .. Len(players[p].regions) : players[p].regions[i].gold >= 0

\* an end_turn has starved units and left a region of the player who ended
\* the turn without gold
C33_Witness ==
    /\ result.op = "end_turn"
    /\ result.starved_hexes # <<>>
    /\ \E p \in PlayerIds :
          \E i \in 1 .. Len(players[p].regions) :
              /\ players[p].regions[i].gold = 0
              /\ \E j \in 1 .. Len(result.starved_hexes) :
                    result.starved_hexes[j] \in players[p].regions[i].hexes

\* a purchase has spent the last gold of the region that paid
C33_SpentAll ==
    /\ result.op = "buy" /\ result.success
    /\ \E i \in 1 .. Len(players[current_player_idx].regions) :
          players[current_player_idx].regions[i].gold = 0

\* C34: unit placement.  In every reachable state every unit stands on a
\* land hex whose owner is the unit's owner.
C34_UnitPlacement ==
    \A h \in Coords :
        board[h].unit # NoUnit =>
            /\ board[h].owner = board[h].unit.owner
            /\ board[h].terrain = "land"

\* a start_turn has killed a region that held units, whose hexes are now
\* unowned graves, while units of the current player stand on its land
C34_Witness ==
    /\ result.op = "start_turn"
    /\ \E k \in 1 .. Len(result.castle_deaths \o result.maintenance_deaths) :
          \E h \in (result.castle_deaths \o result.maintenance_deaths)[k].death.hexes :
              board[h].terrain = "grave" /\ board[h].owner = NoOwner
    /\ \E h \in Coords :
          board[h].unit # NoUnit /\ board[h].unit.owner = current_player_idx

\* a move has conquered a hex and killed the unit on it: the mover stands there
C34_Conquest ==
    /\ result.op = "move" /\ result.success /\ result.conquered
    /\ result.killed # "none"
    /\ \E h \in Coords :
          /\ board[h].unit # NoUnit
          /\ board[h].unit.owner = current_player_idx
          /\ board[h].unit.has_moved

\* the gold of all the regions of player p
TotalGold(ps, p) == GoldOfRegions(ps[p].regions, 1 .. Len(ps[p].regions))

\* C35: region recomputation never creates gold.  A successful move, the
\* operation that recomputes the regions of the mover and of the player who
\* lost the hex and changes no gold otherwise, leaves no player with more
\* gold in total than before, also when the lost hex splits a region.
C35_NoGoldCreated ==
    [][(result'.op = "move" /\ result'.success) =>
          \A p \in PlayerIds : TotalGold(players', p) <= TotalGold(players, p) ]_vars

\* C36: starvation spares zero-upkeep units.  Every unit that the upkeep
\* payment of an end_turn removes has an upkeep above 0, and every region of
\* the player ending the turn that held a castle holds it afterwards.
C36_CastlesSpared ==
    [][result'.op = "end_turn" =>
          /\ \A k \in 1 .. Len(result'.starved_hexes) :
                upkeep(board[result'.starved_hexes[k]].unit) > 0
          /\ \A h \in Coords :
                (/\ board[h].owner = current_player_idx
                 /\ board[h].unit # NoUnit
                 /\ board[h].unit.type = "castle") => board'[h].unit = board[h].unit ]_vars

\* C37: purchase cost accounting.  Every successful buy_unit lowers the
\* total gold of the buyer, summed over the regions the buyer has after the
\* purchase, by exactly the cost of the unit type bought, and changes the
\* units of the board on one hex only: the target, which held no unit of the
\* buyer and now holds one unit of that type owned by the buyer.
C37_PurchaseCost ==
    [][(result'.op = "buy" /\ result'.success) =>
          \A p \in {current_player_idx} :
          \A unit_type \in {result'.message.args[1]} :
              /\ TotalGold(players', p) = TotalGold(players, p) - UNIT_STATS[unit_type].cost
              /\ \E target \in Coords :
                    /\ board[target].unit = NoUnit \/ board[target].unit.owner # p
                    /\ board'[target].unit # NoUnit
                    /\ board'[target].unit.type = unit_type
                    /\ board'[target].unit.owner = p
                    /\ \A h \in Coords \ {target} : board'[h].unit = board[h].unit ]_vars

\* a purchase onto a hex of another player has joined two regions of the
\* buyer, and the joined region holds what the purchase left
C37_Witness ==
    /\ result.op = "buy" /\ result.success /\ result.message.args[3]
    /\ \E i \in 1 .. Len(players[current_player_idx].regions) :
          \E r \in {players[current_player_idx].regions[i]} :
              \E z \in r.hexes :
                  /\ board[z].unit # NoUnit
                  /\ board[z].unit.has_moved
                  /\ board[z].unit.type = result.message.args[1]
                  /\ ~Connected(r.hexes \ {z})
                  /\ r.gold = 10

\* C38: undo followed by resuming play.  When run_current_turn is the call
\* after a successful undo_to_snapshot(N), the current player's regions then
\* hold the gold recorded in snapshot N, the player's hexes have the terrain
\* recorded in snapshot N, and the snapshot that run_current_turn takes
\* holds the same turn, player, board and players as snapshot N.
C38_ResumeAfterUndo ==
    [][(result.op = "undo" /\ result.success /\ result'.op = "start_turn") =>
          \A snapshot \in {history.snapshots[result.snapshot_id]} :
          \A restored \in {from_snapshot(snapshot)} :
          \A p \in {current_player_idx'} :
              /\ RegionGold(players', p) = RegionGold(restored.players, p)
              /\ \A h \in Coords :
                    restored.board[h].owner = p
                        => board'[h].terrain = restored.board[h].terrain
              /\ \A taken \in {history'.snapshots[history'.snapshot_sequence]} :
                    /\ taken.turn = snapshot.turn
                    /\ taken.current_player_idx = snapshot.current_player_idx
                    /\ taken.board_data = snapshot.board_data
                    /\ taken.players_data = snapshot.players_data ]_vars

\* C39: elimination is permanent.  In a game played by start_turn,
\* move_unit, buy_unit and end_turn, a player whose eliminated flag is true
\* keeps it true through every later step, and after no step is such a
\* player the current player while two or more players are not eliminated.
C39_EliminationPermanent ==
    [][\A p \in PlayerIds :
          players[p].eliminated =>
              /\ players'[p].eliminated
              /\ current_player_idx' = p =>
                     Cardinality({q \in PlayerIds : ~players'[q].eliminated}) < 2 ]_vars

\* on the board of three players, one of the players 0 and 1 (who begin with
\* land on every board) has lost all land and been eliminated, the two
\* others are still in the game, and an end_turn has passed the turn on to
\* one of them
C39_Witness ==
    /\ result.op = "end_turn"
    /\ \E p \in {0, 1} :
          /\ players[p].eliminated
          /\ \A h \in Coords : board[h].owner # p
          /\ Cardinality({q \in PlayerIds : ~players[q].eliminated}) = 2
          /\ current_player_idx # p

====
